---- MODULE Spec2Model ----
(***************************************************************************)
(* Enterprise project-management console (React front end).                *)
(*                                                                         *)
(* Part 1: the Notification/Loading hub (context/UIContext.js) and the     *)
(*         HTTP client (api/client.js), with a clock in milliseconds.      *)
(* Part 2: the pure functions applied to response bodies.                  *)
(* Part 3: the application: session (context/AuthContext.js, token        *)
(*         storage), router (App, ProtectedRoute), pages and their         *)
(*         endpoint-probing handlers, toasts.                              *)
(***************************************************************************)
EXTENDS Integers, Sequences, FiniteSets, TLC

VARIABLES
    now,            \* wall clock, ms
    globalLoading,  \* UIProvider: useState(false)
    loadingTimer,   \* UIProvider: loadingTimer.current, the deadline of the pending hide timer
    rq,             \* calls of client.request: position, outcome, signals emitted
    hides,          \* history: how often globalLoading went from TRUE to FALSE
    secondStart,    \* history: when the second call started (the first starts at 0)
    lastEnd,        \* history: when the latest call settled
    overlapped,     \* history: a call started while another was in flight
    longGap,        \* history: a call started GraceMs or more after the previous one settled
    \* --- a pure function applied to an input
    pureFn,         \* the function
    pureIn,         \* its argument
    pureOut,        \* its result
    pureDone,       \* it has been applied
    \* --- the application
    storedToken,    \* localStorage["epm.jwt"]
    token,          \* AuthProvider: useState(() => getToken())
    user,           \* AuthProvider: useState(null)
    initializing,   \* AuthProvider: useState(true)
    eff,            \* the current run of AuthProvider's effect (init)
    stale,          \* cancelled runs of the effect whose profile fetch still goes on (how many)
    route,          \* the location of the router
    pg,             \* state of the mounted page (useState of the page component)
    ops,            \* invocations of asynchronous handlers
    toasts,         \* UIProvider: useState([])
    toastId,        \* UIContext: let toastId = 0
    toastTimers     \* ids of the toasts whose expiry timer is pending

hist == <<hides, secondStart, lastEnd, overlapped, longGap>>
uiVars == <<now, globalLoading, loadingTimer, rq, hist>>
pureVars == <<pureFn, pureIn, pureOut, pureDone>>
appVars == <<storedToken, token, user, initializing, eff, stale, route, pg, ops,
             toasts, toastId, toastTimers>>
vars == <<uiVars, pureVars, appVars>>

\* ------------------------------------------------------------ bounds
MaxReq == 3      \* calls of request in one behaviour
TickMs == 10     \* granularity of the clock
MaxTime == 230   \* the clock stops here

\* ------------------------------------------------------------ constants
GraceMs == 150   \* setTimeout(() => setGlobalLoading(false), 150)

NoTimer == -1    \* loadingTimer.current = null
NoTime == 0 - 1   \* a time stamp not yet taken

Reqs == 1..MaxReq
Outcomes == {"ok", "http", "net"}  \* 2xx body returned, non-2xx thrown, fetch/text rejected

IdleReq == [pc |-> "idle", out |-> "none", busy |-> 0, idle |-> 0]

NStarted == Cardinality({r \in Reqs : rq[r].pc # "idle"})
NSettled == Cardinality({r \in Reqs : rq[r].pc = "settled"})
InFlight == {r \in Reqs : rq[r].pc = "fetch"}

\* ------------------------------------------------------------ JSON values
\* A value of the JavaScript program: [t |-> its type, v |-> its content].
Undef == [t |-> "undefined", v |-> ""]
JNull == [t |-> "null", v |-> ""]
JStr(x) == [t |-> "string", v |-> x]
JArr(x) == [t |-> "array", v |-> x]     \* x: a sequence of values
JObj(x) == [t |-> "object", v |-> x]    \* x: a function from the fields present to values

\* data.k: undefined unless data is an object that has field k.
Get(data, k) ==
    IF data.t = "object" /\ k \in DOMAIN data.v THEN data.v[k] ELSE Undef

\* Truthiness of a value: if (x), !x, x || y.
Truthy(x) ==
    CASE x.t \in {"undefined", "null"} -> FALSE
      [] x.t = "string" -> x.v # ""
      [] OTHER -> TRUE

NotNullish(x) == x.t \notin {"null", "undefined"}    \* x != null

TypeofObject(x) == x.t \in {"object", "array", "null"}    \* typeof x === "object"

\* String(x), the conversion new Error(x) and template strings make: a string
\* is itself, null and undefined are their names, an array is its elements
\* joined by commas (null and undefined elements empty), any other object is
\* "[object Object]".
RECURSIVE String(_)
String(x) ==
    CASE x.t = "string" -> x.v
      [] x.t = "array" ->
            LET RECURSIVE Join(_)
                Join(i) ==
                    IF i > Len(x.v) THEN ""
                    ELSE (IF i > 1 THEN "," ELSE "")
                         \o (IF x.v[i].t \in {"null", "undefined"} THEN "" ELSE String(x.v[i]))
                         \o Join(i + 1)
            IN  Join(1)
      [] x.t = "object" -> "[object Object]"
      [] OTHER -> x.t

\* ------------------------------------------------------------ AuthContext: normalizeAuthResponse
\* Mutant: the token field is read before access_token.
normalizeAuthResponseTokenFirst(data) ==
    IF Truthy(data) /\ TypeofObject(data)
    THEN IF Truthy(Get(data, "token")) THEN Get(data, "token")
         ELSE IF Truthy(Get(data, "access_token")) THEN Get(data, "access_token")
         ELSE IF Truthy(Get(data, "jwt")) THEN Get(data, "jwt")
         ELSE JNull
    ELSE JNull

normalizeAuthResponse(data) ==
    IF Truthy(data) /\ TypeofObject(data)
    THEN IF Truthy(Get(data, "access_token")) THEN Get(data, "access_token")
         ELSE IF Truthy(Get(data, "token")) THEN Get(data, "token")
         ELSE IF Truthy(Get(data, "jwt")) THEN Get(data, "jwt")
         ELSE JNull
    ELSE JNull

\* ------------------------------------------------------------ UIProvider
\* setLoading(isLoading), on the hub state ui = [loading, timer]; the clock is read
\* for the deadline of the new timer.
\* Mutants of setLoading: the hide is not delayed; a start leaves a pending timer alone.
setLoadingNoGrace(isLoading, u) ==
    [loading |-> isLoading, timer |-> NoTimer]

setLoadingKeepsTimer(isLoading, u) ==
    IF isLoading
    THEN [u EXCEPT !.loading = TRUE]
    ELSE [u EXCEPT !.timer = now + GraceMs]

setLoading(isLoading, u) ==
    LET cleared == [u EXCEPT !.timer = NoTimer]     \* clearTimeout; current = null
    IN  IF isLoading
        THEN [cleared EXCEPT !.loading = TRUE]
        ELSE [cleared EXCEPT !.timer = now + GraceMs]

ui == [loading |-> globalLoading, timer |-> loadingTimer]

ApplyUI(next) ==
    /\ globalLoading' = next.loading
    /\ loadingTimer' = next.timer

\* The callback of the hide timer: setGlobalLoading(false). The timer stays in
\* loadingTimer.current after it ran (nothing resets the ref), where a later
\* setLoading clears it to no effect; the model drops it when it runs.
TimerFire ==
    /\ loadingTimer # NoTimer
    /\ now >= loadingTimer
    /\ globalLoading' = FALSE
    /\ loadingTimer' = NoTimer
    /\ hides' = IF globalLoading THEN hides + 1 ELSE hides
    /\ UNCHANGED <<now, rq, secondStart, lastEnd, overlapped, longGap>>
    /\ UNCHANGED <<pureVars, appVars>>

\* Time passes, up to the deadline of a pending timer at most; a due timer runs
\* before more time passes.
Tick ==
    /\ now + TickMs <= MaxTime
    /\ NStarted > 0          \* the clock starts with the first call: nothing is pending before
    /\ ~(loadingTimer # NoTimer /\ now >= loadingTimer)
    /\ now' = IF loadingTimer # NoTimer /\ loadingTimer < now + TickMs
              THEN loadingTimer
              ELSE now + TickMs
    /\ UNCHANGED <<globalLoading, loadingTimer, rq, hist>>
    /\ UNCHANGED <<pureVars, appVars>>

\* ------------------------------------------------------------ client.request

\* request(): headers built, onLoading(true), fetch issued.
RequestStart(r) ==
    /\ rq[r].pc = "idle"
    /\ \A q \in Reqs : q < r => rq[q].pc # "idle"     \* calls are numbered in start order
    /\ rq' = [rq EXCEPT ![r] = [@ EXCEPT !.pc = "fetch", !.busy = @ + 1]]
    /\ ApplyUI(setLoading(TRUE, ui))
    /\ secondStart' = IF NStarted = 1 THEN now ELSE secondStart
    /\ overlapped' = (overlapped \/ InFlight # {})
    /\ longGap' = (longGap \/ (lastEnd # NoTime /\ now - lastEnd >= GraceMs))
    /\ UNCHANGED <<now, hides, lastEnd>>
    /\ UNCHANGED <<pureVars, appVars>>

\* Mutant of RequestSettle: onLoading(false) after the await instead of in finally.
RequestSettleNoFinally(r, outcome) ==
    /\ rq[r].pc = "fetch"
    /\ rq' = [rq EXCEPT ![r] = [@ EXCEPT !.pc = "settled", !.out = outcome,
                                         !.idle = IF outcome = "ok" THEN @ + 1 ELSE @]]
    /\ ApplyUI(IF outcome = "ok" THEN setLoading(FALSE, ui) ELSE ui)
    /\ lastEnd' = now
    /\ UNCHANGED <<now, hides, secondStart, overlapped, longGap>>
    /\ UNCHANGED <<pureVars, appVars>>

\* The call settles: fetch rejected or res.text() rejected ("net"), status outside
\* 2xx thrown ("http"), or the parsed body returned ("ok"); the finally block runs
\* in each case. The two awaits (fetch, res.text) change no state between them
\* and are one step here.
RequestSettle(r, outcome) ==
    /\ rq[r].pc = "fetch"
    /\ rq' = [rq EXCEPT ![r] = [@ EXCEPT !.pc = "settled", !.out = outcome, !.idle = @ + 1]]
    /\ ApplyUI(setLoading(FALSE, ui))
    /\ lastEnd' = now
    /\ UNCHANGED <<now, hides, secondStart, overlapped, longGap>>
    /\ UNCHANGED <<pureVars, appVars>>

\* ============================================================ Part 3: the application
\* ------------------------------------------------------------ bounds
MaxOps == 3       \* handler invocations awaiting a response at the same time
MaxBusy == 1      \* of these, as the user starts one on a protected page
MaxToasts == 1    \* toasts in the list at the same time
MaxToastId == 2   \* toasts pushed in one behaviour
MaxList == 2      \* entries of a list a page holds

\* ------------------------------------------------------------ constants
ToastTimeoutMs == 4500      \* timeoutMs: t.timeoutMs ?? 4500

NoToken == "null"           \* no credential: getItem gives null, useState holds null
Tokens == {"t1", "t2"}
OpIds == 1..MaxOps

PublicRoutes == {"/login", "/register"}
ProtectedRoutes == {"/", "/projects", "/users", "/roles"}
Routes == PublicRoutes \cup ProtectedRoutes

\* Strings the handlers inspect are sequences of characters.
Chars(x) == [t |-> "string", v |-> x]
Blank(c) == c = " "

\* ------------------------------------------------------------ errors thrown
\* An error: message, and for the errors of request status and data.
NoErr == [message |-> "", status |-> 0, data |-> Undef, thrown |-> FALSE]
Error(message) == [message |-> message, status |-> 0, data |-> Undef, thrown |-> TRUE]

\* ------------------------------------------------------------ handler invocations
NoToast == [id |-> 0, type |-> "", title |-> "", description |-> "", timeoutMs |-> 0]

\* One invocation of an asynchronous handler. live: the page instance that made
\* it is still mounted. sent, recv, failed, lastFail, okAt, okData and
\* note record what happened (the requests issued, the answers received, the
\* candidates that failed and the error of the latest, the first candidate that
\* did not fail and its body, the toast pushed); the other fields are the handler's variables.
FreeOp ==
    [kind |-> "none", pc |-> "free", arg |-> Undef, cap |-> NoToken, live |-> FALSE,
     idx |-> 0, lastErr |-> NoErr, res |-> Undef, okFlag |-> FALSE,
     jwt |-> JNull, meIdx |-> 0,
     out |-> "none", thrown |-> NoErr,
     sent |-> <<>>, meSent |-> <<>>, recv |-> 0, failed |-> 0, lastFail |-> NoErr,
     okAt |-> 0, okData |-> Undef, note |-> NoToast]

Running(o) == o.pc \in {"await", "getme"}

\* ------------------------------------------------------------ the state the handlers act on
\* A handler is a function from state to state, so that the calls it makes in
\* one turn of the event loop compose; an action applies one handler. The
\* record of an invocation that is over is dropped with the next turn.
St ==
    [storedToken |-> storedToken, token |-> token, user |-> user,
     initializing |-> initializing, eff |-> eff, stale |-> stale,
     route |-> route, pg |-> pg,
     ops |-> [p \in OpIds |-> IF ops[p].pc = "done" THEN FreeOp ELSE ops[p]],
     toasts |-> toasts, toastId |-> toastId, toastTimers |-> toastTimers,
     loading |-> globalLoading, timer |-> loadingTimer,
     over |-> FALSE]    \* the turn would start more invocations than the bounds allow

Commit(s) ==
    /\ ~s.over
    /\ storedToken' = s.storedToken
    /\ token' = s.token
    /\ user' = s.user
    /\ initializing' = s.initializing
    /\ eff' = s.eff
    /\ stale' = s.stale
    /\ route' = s.route
    /\ pg' = s.pg
    /\ ops' = s.ops
    /\ toasts' = s.toasts
    /\ toastId' = s.toastId
    /\ toastTimers' = s.toastTimers
    /\ globalLoading' = s.loading
    /\ loadingTimer' = s.timer
    /\ UNCHANGED <<now, rq, hist, pureVars>>

\* ------------------------------------------------------------ tokenStorage
\* localStorage is taken to be available: the catch branches of the three
\* functions, which swallow a denied access, are not taken.
\* setItem stores String(t): the tokens followed here are strings, stored as
\* they are.
getToken(s) == s.storedToken
setToken(s, t) == [s EXCEPT !.storedToken = t]
clearToken(s) == [s EXCEPT !.storedToken = NoToken]

\* ------------------------------------------------------------ UIProvider: toasts, loading
\* pushToast(t): t = [type, title, description], "" for a field not given.
\* The hub h = [toasts, toastId, timers]: the list, the module's counter and
\* the ids whose setTimeout is pending. t.timeoutMs is given or not.
\* Mutant: the id is the place in the list, not the counter.
pushToastHubByLength(h, t) ==
    LET id == Len(h.toasts) + 1
        toast == [id |-> id,
                  type |-> IF t.type # "" THEN t.type ELSE "info",
                  title |-> IF t.title # "" THEN t.title
                            ELSE IF t.type = "error" THEN "Error" ELSE "Notice",
                  description |-> t.description,
                  timeoutMs |-> IF "timeoutMs" \in DOMAIN t THEN t.timeoutMs
                                ELSE ToastTimeoutMs]
    IN  [toasts |-> <<toast>> \o h.toasts,
         toastId |-> id,
         timers |-> IF toast.timeoutMs # 0 THEN h.timers \cup {id} ELSE h.timers]

pushToastHub(h, t) ==
    LET id == h.toastId + 1
        toast == [id |-> id,
                  type |-> IF t.type # "" THEN t.type ELSE "info",
                  title |-> IF t.title # "" THEN t.title
                            ELSE IF t.type = "error" THEN "Error" ELSE "Notice",
                  description |-> t.description,
                  timeoutMs |-> IF "timeoutMs" \in DOMAIN t THEN t.timeoutMs
                                ELSE ToastTimeoutMs]
    IN  [toasts |-> <<toast>> \o h.toasts,
         toastId |-> id,
         timers |-> IF toast.timeoutMs # 0 THEN h.timers \cup {id} ELSE h.timers]

Hub(s) == [toasts |-> s.toasts, toastId |-> s.toastId, timers |-> s.toastTimers]

pushToast(s, t) ==
    LET h == pushToastHub(Hub(s), t)
    IN  [s EXCEPT !.toastId = h.toastId,
                  !.toasts = h.toasts,
                  !.toastTimers = h.timers,
                  !.over = @ \/ Len(s.toasts) >= MaxToasts \/ h.toastId > MaxToastId]

\* prev.filter((x) => x.id !== id)
\* Mutant: the filter keeps the toasts older than the one removed.
removeToastHubNewer(list, id) == SelectSeq(list, LAMBDA x : x.id < id)

removeToastHub(list, id) == SelectSeq(list, LAMBDA x : x.id # id)

removeToast(s, id) == [s EXCEPT !.toasts = removeToastHub(@, id)]

LastToast(s) == s.toasts[1]

setLoadingIn(s, isLoading) ==
    LET u == setLoading(isLoading, [loading |-> s.loading, timer |-> s.timer])
    IN  [s EXCEPT !.loading = u.loading, !.timer = u.timer]

\* ------------------------------------------------------------ client.request, as the handlers use it
\* What the backend answers: no response at all, or a status with a parsed body.
NetFailure == [net |-> TRUE, status |-> 0, data |-> Undef]
Http(status, data) == [net |-> FALSE, status |-> status, data |-> data]

\* The message of the error request throws for a status outside 2xx.
errorMessage(status, data) ==
    LET field == IF Truthy(Get(data, "detail")) THEN Get(data, "detail")
                 ELSE IF Truthy(Get(data, "message")) THEN Get(data, "message")
                 ELSE Get(data, "error")
    IN  IF Truthy(data) /\ Truthy(field) THEN String(field)
        ELSE IF data.t = "string" /\ Truthy(data) THEN data.v
        ELSE "Request failed (" \o ToString(status) \o ")"

\* What request gives its caller for an answer: [ok, data, err].
requestResult(raw) ==
    IF raw.net
    THEN [ok |-> FALSE, data |-> Undef, err |-> Error("Failed to fetch")]
    ELSE IF raw.status >= 200 /\ raw.status <= 299      \* res.ok
    THEN [ok |-> TRUE, data |-> raw.data, err |-> NoErr]
    ELSE [ok |-> FALSE, data |-> Undef,
          err |-> [message |-> errorMessage(raw.status, raw.data),
                   status |-> raw.status, data |-> raw.data, thrown |-> TRUE]]

\* JSON.parse on the texts followed: the texts that are JSON, with their
\* values; on any other text it throws a SyntaxError.
JsonTexts ==
    [t \in {"null", "[]", "{}", "\"oops\"", "[{\"id\":\"p1\"}]",
            "{\"detail\":\"bad\"}", "{\"message\":\"m\",\"error\":\"e\"}",
            "{\"detail\":\"\",\"error\":\"e\"}",
            "{\"detail\":[{\"msg\":\"field required\"}]}"} |->
        CASE t = "null" -> JNull
          [] t = "[]" -> JArr(<<>>)
          [] t = "{}" -> JObj([k \in {} |-> JNull])
          [] t = "\"oops\"" -> JStr("oops")
          [] t = "[{\"id\":\"p1\"}]" -> JArr(<<JObj([id |-> JStr("p1")])>>)
          [] t = "{\"detail\":\"bad\"}" -> JObj([detail |-> JStr("bad")])
          [] t = "{\"message\":\"m\",\"error\":\"e\"}" ->
                JObj([message |-> JStr("m"), error |-> JStr("e")])
          [] t = "{\"detail\":\"\",\"error\":\"e\"}" ->
                JObj([detail |-> JStr(""), error |-> JStr("e")])
          [] OTHER -> JObj([detail |-> JArr(<<JObj([msg |-> JStr("field required")])>>)])]

SyntaxError == [t |-> "thrown", v |-> "SyntaxError"]

JSONParse(text) == IF text \in DOMAIN JsonTexts THEN JsonTexts[text] ELSE SyntaxError

\* Mutant: no catch around JSON.parse.
safeJsonParseNoCatch(text) ==
    IF text # "" THEN JSONParse(text) ELSE JNull

\* safeJsonParse(text): the value, or what was thrown out of it.
safeJsonParse(text) ==
    LET parsed == IF text # "" THEN JSONParse(text) ELSE JNull
    IN  IF parsed.t = "thrown" THEN JStr(text) ELSE parsed

\* request(...) for a response with this status and body text: what it
\* returns or throws.
request(status, text) == requestResult(Http(status, safeJsonParse(text)))

\* The request as issued: method, path (":id" filled from id), credential, body.
Req(method, path, id, body) ==
    [method |-> method, path |-> path, id |-> id, body |-> body, auth |-> NoToken]

\* request() up to the fetch: the credential of the client's getToken, then
\* onLoading?.(true).
issue(s, hasLoading) == IF hasLoading THEN setLoadingIn(s, TRUE) ELSE s

\* request() after the fetch settled: finally onLoading?.(false).
settle(s, hasLoading) == IF hasLoading THEN setLoadingIn(s, FALSE) ELSE s

Min(S) == CHOOSE x \in S : \A y \in S : x <= y

\* ------------------------------------------------------------ candidate route tables
\* The routes each probing handler tries, in the order of its candidates array;
\* arg holds what the handler was called with.
Field(arg, k) == Get(arg, k)

Candidates(kind, arg) ==
    CASE kind = "login" ->
            <<Req("POST", "/auth/login", Undef,
                  JObj([email |-> Field(arg, "email"), password |-> Field(arg, "password")])),
              Req("POST", "/login", Undef,
                  JObj([email |-> Field(arg, "email"), password |-> Field(arg, "password")])),
              Req("POST", "/token", Undef,
                  JObj([username |-> Field(arg, "email"), password |-> Field(arg, "password")]))>>
      [] kind = "register" ->
            <<Req("POST", "/auth/register", Undef, arg),
              Req("POST", "/register", Undef, arg),
              Req("POST", "/auth/signup", Undef, arg)>>
      [] kind = "ProjectsPage.load" ->
            <<Req("GET", "/projects", Undef, Undef), Req("GET", "/api/projects", Undef, Undef)>>
      [] kind = "ProjectsPage.save" ->
            IF Field(arg, "mode") = JStr("create")
            THEN <<Req("POST", "/projects", Undef, Field(arg, "body"))>>
            ELSE <<Req("PUT", "/projects/:id", Field(arg, "id"), Field(arg, "body"))>>
      [] kind = "ProjectsPage.archiveOrDelete" ->
            <<Req("PATCH", "/projects/:id", Field(arg, "id"),
                  JObj([status |-> JStr("archived")])),
              Req("DELETE", "/projects/:id", Field(arg, "id"), Undef)>>
      [] kind \in {"UsersPage.loadUsers", "RolesPage.loadUsers"} ->
            <<Req("GET", "/users", Undef, Undef), Req("GET", "/api/users", Undef, Undef)>>
      [] kind \in {"UsersPage.loadRoles", "RolesPage.loadRoles"} ->
            <<Req("GET", "/roles", Undef, Undef), Req("GET", "/api/roles", Undef, Undef)>>
      [] kind = "UsersPage.submitInvite" ->
            <<Req("POST", "/users/invite", Undef, arg),
              Req("POST", "/invite", Undef, arg),
              Req("POST", "/users", Undef, arg)>>
      [] kind = "UsersPage.updateUserRole" ->
            <<Req("PUT", "/users/:id/role", Field(arg, "userId"),
                  JObj([roleId |-> Field(arg, "roleId")])),
              Req("PATCH", "/users/:id", Field(arg, "userId"),
                  JObj([roleId |-> Field(arg, "roleId")])),
              Req("POST", "/users/:id/roles", Field(arg, "userId"),
                  JObj([roleId |-> Field(arg, "roleId")]))>>
      [] kind = "RolesPage.selectRole" ->
            <<Req("GET", "/roles/:id/permissions", Field(arg, "id"), Undef),
              Req("GET", "/roles/:id", Field(arg, "id"), Undef),
              Req("GET", "/api/roles/:id/permissions", Field(arg, "id"), Undef)>>
      [] kind = "RolesPage.savePermissions" ->
            <<Req("PUT", "/roles/:id/permissions", Field(arg, "id"),
                  JObj([permissions |-> Field(arg, "keys")])),
              Req("PATCH", "/roles/:id", Field(arg, "id"),
                  JObj([permissions |-> Field(arg, "keys")]))>>
      [] kind = "RolesPage.assignRoleToUser" ->
            <<Req("POST", "/users/:id/roles", Field(arg, "userId"),
                  JObj([roleId |-> Field(arg, "roleId")])),
              Req("PUT", "/users/:id/role", Field(arg, "userId"),
                  JObj([roleId |-> Field(arg, "roleId")])),
              Req("PATCH", "/users/:id", Field(arg, "userId"),
                  JObj([roleId |-> Field(arg, "roleId")]))>>
      [] OTHER -> <<>>

MeCandidates == <<"/auth/me", "/me", "/users/me", "/api/me">>

MeReq(i, tok) == [Req("GET", MeCandidates[i], Undef, Undef) EXCEPT !.auth = tok]

\* The session's client (AuthProvider.api, and the clients login and register
\* build for the profile fetch) has no onLoading; the pages' clients have setLoading.
HasLoading(kind) == kind \notin {"login", "register"}

\* ------------------------------------------------------------ AuthContext: bestEffortGetMe
\* One turn of the loop: r is the answer to candidate idx. A body that is falsy
\* counts like a failure.
\* Mutant: any 2xx ends the loop, whatever its body.
bestEffortGetMeAnyBody(idx, r) ==
    IF r.ok THEN [done |-> TRUE, me |-> r.data]
    ELSE IF idx < Len(MeCandidates) THEN [done |-> FALSE, me |-> JNull]
    ELSE [done |-> TRUE, me |-> JNull]

bestEffortGetMe(idx, r) ==
    IF r.ok /\ Truthy(r.data) THEN [done |-> TRUE, me |-> r.data]
    ELSE IF idx < Len(MeCandidates) THEN [done |-> FALSE, me |-> JNull]
    ELSE [done |-> TRUE, me |-> JNull]

\* The whole loop, answers[i] being what the backend answers to candidate i:
\* the paths requested and the profile returned.
RECURSIVE bestEffortGetMeFrom(_, _)
bestEffortGetMeFrom(idx, answers) ==
    LET st == bestEffortGetMe(idx, requestResult(answers[idx]))
    IN  IF st.done THEN [me |-> st.me, paths |-> SubSeq(MeCandidates, 1, idx)]
        ELSE bestEffortGetMeFrom(idx + 1, answers)

\* A state update of its page by invocation p: lost when the page is unmounted.
\* Lists longer than MaxList are not followed.
setPg(s, p, newpg) == IF s.ops[p].live THEN [s EXCEPT !.pg = newpg] ELSE s

setList(s, p, field, list) ==
    IF s.ops[p].live
    THEN [s EXCEPT !.pg[field] = list, !.over = @ \/ Len(list) > MaxList]
    ELSE s

\* ------------------------------------------------------------ the probing loop
\* The handler issues the first candidate.
startOp(s, kind, arg) ==
    LET free == {p \in OpIds : s.ops[p].pc = "free"}
    IN  IF free = {} THEN [s EXCEPT !.over = TRUE]
        ELSE LET p == Min(free)
                 o == [FreeOp EXCEPT !.kind = kind, !.pc = "await", !.arg = arg,
                                     !.cap = s.token, !.live = TRUE, !.idx = 1,
                                     !.sent = <<[Candidates(kind, arg)[1] EXCEPT !.auth = s.token]>>]
             IN  issue([s EXCEPT !.ops[p] = o], HasLoading(kind))

\* Mutant: the loop passes over the candidate after the one that failed.
nextCandidateSkips(s, p, e, keep) ==
    LET o == s.ops[p]
        cands == Candidates(o.kind, o.arg)
        o1 == [o EXCEPT !.lastErr = IF keep THEN e ELSE @]
    IN  IF o.idx + 1 < Len(cands)
        THEN issue([s EXCEPT !.ops[p] =
                        [o1 EXCEPT !.idx = @ + 2,
                                   !.sent = Append(@, [cands[o.idx + 2] EXCEPT !.auth = o.cap])]],
                   HasLoading(o.kind))
        ELSE [s EXCEPT !.ops[p] = [o1 EXCEPT !.pc = "exhausted"]]

\* Mutant: lastErr keeps the error of the first candidate that failed.
nextCandidateKeepsFirst(s, p, e, keep) ==
    LET o == s.ops[p]
        cands == Candidates(o.kind, o.arg)
        o1 == [o EXCEPT !.lastErr = IF keep /\ ~@.thrown THEN e ELSE @]
    IN  IF o.idx < Len(cands)
        THEN issue([s EXCEPT !.ops[p] =
                        [o1 EXCEPT !.idx = @ + 1,
                                   !.sent = Append(@, [cands[o.idx + 1] EXCEPT !.auth = o.cap])]],
                   HasLoading(o.kind))
        ELSE [s EXCEPT !.ops[p] = [o1 EXCEPT !.pc = "exhausted"]]

\* catch (e) { lastErr = e } and the next turn of the loop: the next candidate
\* is issued, or the loop ends with every candidate failed. keep: the handler
\* has a lastErr variable.
nextCandidate(s, p, e, keep) ==
    LET o == s.ops[p]
        cands == Candidates(o.kind, o.arg)
        o1 == [o EXCEPT !.lastErr = IF keep THEN e ELSE @]
    IN  IF o.idx < Len(cands)
        THEN issue([s EXCEPT !.ops[p] =
                        [o1 EXCEPT !.idx = @ + 1,
                                   !.sent = Append(@, [cands[o.idx + 1] EXCEPT !.auth = o.cap])]],
                   HasLoading(o.kind))
        ELSE [s EXCEPT !.ops[p] = [o1 EXCEPT !.pc = "exhausted"]]

\* throw lastErr || new Error(generic)
thrownAfterLoop(o, generic) == IF o.lastErr.thrown THEN o.lastErr ELSE Error(generic)

\* The invocation is over: it resolved ("ok"), surfaced an error ("error") or
\* ignored its failure ("silent").
finish(s, p, out, e) ==
    [s EXCEPT !.ops[p] = [@ EXCEPT !.pc = "done", !.out = out, !.thrown = e]]

\* pushToast by invocation p.
toastBy(s, p, t) ==
    LET s1 == pushToast(s, t)
    IN  [s1 EXCEPT !.ops[p] = [@ EXCEPT !.note = LastToast(s1)]]

\* ------------------------------------------------------------ AuthProvider: the effect
IdleEff == [tok |-> NoToken, pc |-> "idle", idx |-> 0, sent |-> <<>>]

\* Mutant: init() fetches the profile whether or not there is a token.
runInitAlwaysFetches(s) ==
    LET s1 == IF s.eff.pc = "getme"
              THEN [s EXCEPT !.stale = @ + 1]
              ELSE s
    IN  [s1 EXCEPT !.initializing = TRUE,
                   !.eff = [tok |-> s.token, pc |-> "getme", idx |-> 1,
                            sent |-> <<MeReq(1, s.token)>>]]

\* The effect runs: the cleanup of the previous run sets its cancelled flag (the
\* run goes on fetching, to no effect), then init() starts.
runInit(s) ==
    LET s1 == IF s.eff.pc = "getme"
              THEN [s EXCEPT !.stale = @ + 1]
              ELSE s
    IN  IF s.token = NoToken
        THEN [s1 EXCEPT !.user = JNull,
                        !.initializing = FALSE,
                        !.eff = [tok |-> NoToken, pc |-> "done", idx |-> 0, sent |-> <<>>]]
        ELSE [s1 EXCEPT !.initializing = TRUE,
                        !.eff = [tok |-> s.token, pc |-> "getme", idx |-> 1,
                                 sent |-> <<MeReq(1, s.token)>>]]

\* ------------------------------------------------------------ pages
NoForm == [email |-> <<>>, name |-> <<>>, roleId |-> ""]
NoErrors == [k \in {} |-> ""]      \* errors = {}

\* The useState initial values of the page components.
InitPg(page) ==
    CASE page \in PublicRoutes ->
            [page |-> page, formError |-> "", submitting |-> FALSE]
      [] page = "/projects" ->
            [page |-> page, projects |-> <<>>, selected |-> JNull, mode |-> "none",
             form |-> [name |-> <<>>, description |-> <<>>, status |-> "active"],
             errors |-> NoErrors]
      [] page = "/users" ->
            [page |-> page, users |-> <<>>, roles |-> <<>>, inviteOpen |-> FALSE,
             inviteForm |-> NoForm, errors |-> NoErrors]
      [] page = "/roles" ->
            [page |-> page, roles |-> <<>>, users |-> <<>>, selectedRole |-> JNull,
             rolePerms |-> {}, assignUserId |-> ""]
      [] OTHER -> [page |-> "none"]

\* What the router shows: a public page, or behind ProtectedRoute the page of
\* the route once the session is initialized and holds a credential.
\* Mutant: ProtectedRoute looks at the credential only.
ShownWhileInitializing(s) ==
    IF s.route \in PublicRoutes THEN s.route
    ELSE IF s.token = NoToken THEN "none"
    ELSE s.route

Shown(s) ==
    IF s.route \in PublicRoutes THEN s.route
    ELSE IF s.initializing \/ s.token = NoToken THEN "none"
    ELSE s.route

\* useEffect(..., []) of the page: the primary load, then the secondary one.
mountEffects(s, page) ==
    CASE page = "/projects" -> startOp(s, "ProjectsPage.load", Undef)
      [] page = "/users" ->
            startOp(startOp(s, "UsersPage.loadUsers", Undef), "UsersPage.loadRoles", Undef)
      [] page = "/roles" ->
            startOp(startOp(s, "RolesPage.loadRoles", Undef), "RolesPage.loadUsers", Undef)
      [] OTHER -> s

\* The page shown changes: the previous page is unmounted (its invocations go
\* on, their state updates are lost), the new one starts from its initial state
\* and its mount effect runs.
mount(s, page) ==
    mountEffects([s EXCEPT !.ops = [p \in OpIds |-> [@[p] EXCEPT !.live = FALSE]],
                           !.pg = InitPg(page)], page)

\* React commits the state the turn left: the effect of AuthProvider runs again
\* when the token changed, ProtectedRoute and the index route redirect, and the
\* page shown is mounted in place of the previous one.
\* The table of ProjectsPage reads p.id of every entry: an entry that is null
\* makes the render throw, and React unmounts the application.
RenderThrows(s) ==
    /\ s.pg.page = "/projects"
    /\ \E i \in 1..Len(s.pg.projects) : ~NotNullish(s.pg.projects[i])

unmountAll(s) ==
    [s EXCEPT !.ops = [p \in OpIds |-> [@[p] EXCEPT !.live = FALSE]],
              !.pg.page = "crashed"]

render(s) ==
    LET s1 == IF s.eff.pc # "idle" /\ s.eff.tok # s.token THEN runInit(s) ELSE s
        s2 == IF s1.route \in ProtectedRoutes /\ ~s1.initializing
              THEN IF s1.token = NoToken THEN [s1 EXCEPT !.route = "/login"]
                   ELSE IF s1.route = "/" THEN [s1 EXCEPT !.route = "/projects"]
                   ELSE s1
              ELSE s1
    IN  IF s.pg.page = "crashed" THEN s
        ELSE IF Shown(s2) # s2.pg.page THEN mount(s2, Shown(s2))
        ELSE IF RenderThrows(s2) THEN unmountAll(s2)
        ELSE s2


\* ------------------------------------------------------------ form validation
\* /\S+@\S+\.\S+/.test(e), e a sequence of characters.
EmailRegexTest(e) ==
    \E i \in 2..Len(e) :
        /\ e[i] = "@"
        /\ ~Blank(e[i - 1])
        /\ \E j \in (i + 2)..(Len(e) - 1) :
              /\ e[j] = "."
              /\ \A k \in (i + 1)..(j - 1) : ~Blank(e[k])
              /\ ~Blank(e[j + 1])

RECURSIVE TrimStart(_)
TrimStart(x) == IF x # <<>> /\ Blank(Head(x)) THEN TrimStart(Tail(x)) ELSE x

RECURSIVE TrimEnd(_)
TrimEnd(x) == IF x # <<>> /\ Blank(x[Len(x)]) THEN TrimEnd(SubSeq(x, 1, Len(x) - 1)) ELSE x

Trim(x) == TrimEnd(TrimStart(x))     \* x.trim()

\* ------------------------------------------------------------ AuthProvider.login
TokenlessMessage == "Login response did not include a token."

\* Mutant: a 2xx answer without a token ends the loop.
loginOnResponseStopsTokenless(s, p, r) ==
    LET jwt == normalizeAuthResponse(r.data)
    IN  IF r.ok /\ Truthy(jwt)
        THEN [s EXCEPT !.storedToken = jwt.v, !.token = jwt.v,
                       !.ops[p] = [@ EXCEPT !.pc = "getme", !.jwt = jwt, !.meIdx = 1,
                                            !.meSent = <<MeReq(1, jwt.v)>>]]
        ELSE IF r.ok
        THEN [s EXCEPT !.ops[p] = [@ EXCEPT !.pc = "exhausted",
                                            !.lastErr = Error(TokenlessMessage)]]
        ELSE nextCandidate(s, p, r.err, TRUE)

\* Mutant: the credential is kept in memory only.
loginOnResponseNoPersist(s, p, r) ==
    LET jwt == normalizeAuthResponse(r.data)
    IN  IF r.ok /\ Truthy(jwt)
        THEN [s EXCEPT !.token = jwt.v,
                       !.ops[p] = [@ EXCEPT !.pc = "getme", !.jwt = jwt, !.meIdx = 1,
                                            !.meSent = <<MeReq(1, jwt.v)>>]]
        ELSE nextCandidate(s, p,
                           IF r.ok THEN Error(TokenlessMessage) ELSE r.err, TRUE)

\* The loop body of login for the answer r to the candidate awaited: with a
\* token, setToken, setTokenState and the first request of bestEffortGetMe;
\* without, the error is caught and the next candidate is tried.
loginOnResponse(s, p, r) ==
    LET jwt == normalizeAuthResponse(r.data)
    IN  IF r.ok /\ Truthy(jwt)
        THEN [setToken(s, jwt.v) EXCEPT
                       !.token = jwt.v,
                       !.ops[p] = [@ EXCEPT !.pc = "getme", !.jwt = jwt, !.meIdx = 1,
                                            !.meSent = <<MeReq(1, jwt.v)>>]]
        ELSE nextCandidate(s, p,
                           IF r.ok THEN Error(TokenlessMessage) ELSE r.err, TRUE)

\* await bestEffortGetMe(...) in login, for the answer r to its request;
\* then setUser(me); return { token: jwt, user: me }.
loginOnMe(s, p, r) ==
    LET o == s.ops[p]
        st == bestEffortGetMe(o.meIdx, r)
    IN  IF st.done
        THEN [s EXCEPT !.user = st.me,
                       !.ops[p] = [@ EXCEPT !.pc = "returned",
                                            !.res = JObj([token |-> o.jwt, user |-> st.me])]]
        ELSE [s EXCEPT !.ops[p] = [@ EXCEPT !.meIdx = @ + 1,
                                            !.meSent = Append(@, MeReq(o.meIdx + 1, o.jwt.v))]]

\* ------------------------------------------------------------ AuthProvider.register
\* Mutant: a registration answered without a token resets the session.
registerOnResponseResets(s, p, r) ==
    LET jwt == normalizeAuthResponse(r.data)
    IN  IF r.ok
        THEN IF Truthy(jwt)
             THEN [setToken(s, jwt.v) EXCEPT
                       !.token = jwt.v,
                       !.ops[p] = [@ EXCEPT !.pc = "getme", !.jwt = jwt, !.meIdx = 1,
                                            !.meSent = <<MeReq(1, jwt.v)>>]]
             ELSE [clearToken(s) EXCEPT
                       !.token = NoToken, !.user = JNull,
                       !.ops[p] = [@ EXCEPT !.pc = "returned",
                                            !.res = JObj([token |-> JNull, user |-> JNull])]]
        ELSE nextCandidate(s, p, r.err, TRUE)

registerOnResponse(s, p, r) ==
    LET jwt == normalizeAuthResponse(r.data)
    IN  IF r.ok
        THEN IF Truthy(jwt)
             THEN [setToken(s, jwt.v) EXCEPT
                       !.token = jwt.v,
                       !.ops[p] = [@ EXCEPT !.pc = "getme", !.jwt = jwt, !.meIdx = 1,
                                            !.meSent = <<MeReq(1, jwt.v)>>]]
             ELSE [s EXCEPT !.ops[p] = [@ EXCEPT !.pc = "returned",
                                                 !.res = JObj([token |-> JNull, user |-> JNull])]]
        ELSE nextCandidate(s, p, r.err, TRUE)

registerOnMe(s, p, r) ==
    LET o == s.ops[p]
        st == bestEffortGetMe(o.meIdx, r)
    IN  IF st.done
        THEN [s EXCEPT !.user = st.me,
                       !.ops[p] = [@ EXCEPT !.pc = "returned",
                                            !.res = JObj([token |-> o.jwt, user |-> JNull])]]
        ELSE [s EXCEPT !.ops[p] = [@ EXCEPT !.meIdx = @ + 1,
                                            !.meSent = Append(@, MeReq(o.meIdx + 1, o.jwt.v))]]

\* ------------------------------------------------------------ AuthProvider.logout
\* Mutant: logout leaves the token store alone.
logoutKeepsStored(s) == [s EXCEPT !.token = NoToken, !.user = JNull]

logout(s) == [clearToken(s) EXCEPT !.token = NoToken, !.user = JNull]

\* ------------------------------------------------------------ LoginPage, RegisterPage
orDefault(message, default) == IF message # "" THEN message ELSE default

\* onSubmit up to await login(...).
LoginPageOnSubmit(s, email, password) ==
    LET s1 == [s EXCEPT !.pg.formError = ""]
    IN  IF ~EmailRegexTest(email)
        THEN [s1 EXCEPT !.pg.formError = "Please enter a valid email address."]
        ELSE IF Len(password) < 6
        THEN [s1 EXCEPT !.pg.formError = "Password must be at least 6 characters."]
        ELSE startOp([s1 EXCEPT !.pg.submitting = TRUE], "login",
                     JObj([email |-> Chars(email), password |-> Chars(password)]))

\* onSubmit after await login(...): login returned or threw.
LoginPageAfterLogin(s, p) ==
    LET o == s.ops[p]
        e == thrownAfterLoop(o, "Login failed.")
    IN  CASE o.pc = "returned" ->
               LET s1 == toastBy(s, p, [type |-> "success", title |-> "Welcome back",
                                        description |-> "Signed in successfully."])
                   s2 == [s1 EXCEPT !.route = "/projects"]
               IN  finish(setPg(s2, p, [s2.pg EXCEPT !.submitting = FALSE]), p, "ok", NoErr)
          [] o.pc = "exhausted" ->
               LET s1 == toastBy(s, p, [type |-> "error", title |-> "Login failed",
                                        description |-> orDefault(e.message, "Please try again.")])
               IN  finish(setPg(s1, p, [s1.pg EXCEPT !.submitting = FALSE]), p, "error", e)
          [] OTHER -> s

RegisterPageOnSubmit(s, name, email, password) ==
    LET s1 == [s EXCEPT !.pg.formError = ""]
    IN  IF Len(Trim(name)) < 2
        THEN [s1 EXCEPT !.pg.formError = "Please enter your name."]
        ELSE IF ~EmailRegexTest(email)
        THEN [s1 EXCEPT !.pg.formError = "Please enter a valid email address."]
        ELSE IF Len(password) < 8
        THEN [s1 EXCEPT !.pg.formError = "Password must be at least 8 characters."]
        ELSE startOp([s1 EXCEPT !.pg.submitting = TRUE], "register",
                     JObj([name |-> Chars(Trim(name)), email |-> Chars(email),
                           password |-> Chars(password)]))

RegisterPageAfterRegister(s, p) ==
    LET o == s.ops[p]
        e == thrownAfterLoop(o, "Registration failed.")
    IN  CASE o.pc = "returned" ->
               LET s1 == toastBy(s, p, [type |-> "success", title |-> "Account created",
                                        description |-> "You can now sign in."])
                   s2 == [s1 EXCEPT !.route = "/login"]
               IN  finish(setPg(s2, p, [s2.pg EXCEPT !.submitting = FALSE]), p, "ok", NoErr)
          [] o.pc = "exhausted" ->
               LET s1 == toastBy(s, p, [type |-> "error", title |-> "Registration failed",
                                        description |-> orDefault(e.message, "Please try again.")])
               IN  finish(setPg(s1, p, [s1.pg EXCEPT !.submitting = FALSE]), p, "error", e)
          [] OTHER -> s

\* ------------------------------------------------------------ normalizeList (one copy per page)
normalizeListProjects(data) ==
    IF ~Truthy(data) THEN <<>>
    ELSE IF data.t = "array" THEN data.v
    ELSE IF Get(data, "items").t = "array" THEN Get(data, "items").v
    ELSE IF Get(data, "data").t = "array" THEN Get(data, "data").v
    ELSE <<>>

\* Mutant: the Users copy reads data before items.
normalizeListUsersDataFirst(data) ==
    IF ~Truthy(data) THEN <<>>
    ELSE IF data.t = "array" THEN data.v
    ELSE IF Get(data, "data").t = "array" THEN Get(data, "data").v
    ELSE IF Get(data, "items").t = "array" THEN Get(data, "items").v
    ELSE <<>>

normalizeListUsers(data) ==
    IF ~Truthy(data) THEN <<>>
    ELSE IF data.t = "array" THEN data.v
    ELSE IF Get(data, "items").t = "array" THEN Get(data, "items").v
    ELSE IF Get(data, "data").t = "array" THEN Get(data, "data").v
    ELSE <<>>

normalizeListRoles(data) ==
    IF ~Truthy(data) THEN <<>>
    ELSE IF data.t = "array" THEN data.v
    ELSE IF Get(data, "items").t = "array" THEN Get(data, "items").v
    ELSE IF Get(data, "data").t = "array" THEN Get(data, "data").v
    ELSE <<>>

\* ------------------------------------------------------------ the loads of the pages
\* load().catch(e => pushToast(...)), loadUsers, loadRoles: the answer r to the
\* candidate awaited. list: the list r.data normalizes to; field: the state it
\* is set to; title: of the error toast, "" for a load that ignores its failure.
\* Mutant: a load that ignores its failure shows a toast all the same.
loadOnResponseNeverSilent(s, p, r, list, field, title, generic) ==
    IF r.ok
    THEN LET s1 == [s EXCEPT !.ops[p].res = r.data]
         IN  finish(setList(s1, p, field, list), p, "ok", NoErr)
    ELSE LET s1 == nextCandidate(s, p, r.err, title # "")
             e == thrownAfterLoop(s1.ops[p], generic)
         IN  IF s1.ops[p].pc # "exhausted" THEN s1
             ELSE finish(toastBy(s1, p, [type |-> "error", title |-> title,
                                         description |-> e.message]), p, "error", e)

loadOnResponse(s, p, r, list, field, title, generic) ==
    IF r.ok
    THEN LET s1 == [s EXCEPT !.ops[p].res = r.data]
         IN  finish(setList(s1, p, field, list), p, "ok", NoErr)
    ELSE LET s1 == nextCandidate(s, p, r.err, title # "")
             e == thrownAfterLoop(s1.ops[p], generic)
         IN  IF s1.ops[p].pc # "exhausted" THEN s1
             ELSE IF title = "" THEN finish(s1, p, "silent", NoErr)
             ELSE finish(toastBy(s1, p, [type |-> "error", title |-> title,
                                         description |-> e.message]), p, "error", e)

\* ------------------------------------------------------------ UsersPage
validateUser(form) ==
    IF form.email = <<>> \/ ~EmailRegexTest(form.email)
    THEN [email |-> "Valid email required."]
    ELSE NoErrors

openInvite(s) ==
    LET first == IF s.pg.roles # <<>> THEN Get(s.pg.roles[1], "id") ELSE Undef
    IN  [s EXCEPT !.pg.inviteOpen = TRUE,
                  !.pg.inviteForm = [NoForm EXCEPT !.roleId =
                                        IF Truthy(first) THEN String(first) ELSE ""],
                  !.pg.errors = NoErrors]

FormBody(form) ==
    JObj([email |-> Chars(form.email), name |-> Chars(form.name), roleId |-> JStr(form.roleId)])

\* submitInvite up to the first request.
submitInvite(s) ==
    LET v == validateUser(s.pg.inviteForm)
        s1 == [s EXCEPT !.pg.errors = v]
    IN  IF DOMAIN v # {} THEN s1
        ELSE startOp(s1, "UsersPage.submitInvite", FormBody(s.pg.inviteForm))

\* [created, ...prev].filter(Boolean)
Prepend(x, list) == SelectSeq(<<x>> \o list, Truthy)

\* prev.map(u => u.id === id ? x : u)
ReplaceById(list, id, x) ==
    [i \in 1..Len(list) |-> IF Get(list[i], "id") = id THEN x ELSE list[i]]

\* The loop of submitInvite and what follows it, for the answer r.
submitInviteOnResponse(s, p, r) ==
    LET s1 == IF r.ok THEN [s EXCEPT !.ops[p].res = r.data, !.ops[p].pc = "break"]
              ELSE nextCandidate(s, p, r.err, TRUE)
        o == s1.ops[p]
        e == thrownAfterLoop(o, "Invite failed.")
    IN  IF o.pc \notin {"break", "exhausted"} THEN s1
        ELSE IF ~Truthy(o.res)
        THEN finish(toastBy(s1, p, [type |-> "error", title |-> "Invite failed",
                                    description |-> e.message]), p, "error", e)
        ELSE LET s2 == toastBy(s1, p, [type |-> "success", title |-> "User invited/created",
                                       description |-> ""])
                 s3 == setList(s2, p, "users", Prepend(o.res, s2.pg.users))
             IN  finish(setPg(s3, p, [s3.pg EXCEPT !.inviteOpen = FALSE]), p, "ok", NoErr)

updateUserRole(s, userId, roleId) ==
    startOp(s, "UsersPage.updateUserRole", JObj([userId |-> userId, roleId |-> JStr(roleId)]))

updateUserRoleOnResponse(s, p, r) ==
    LET s1 == IF r.ok THEN [s EXCEPT !.ops[p].res = r.data, !.ops[p].pc = "break"]
              ELSE nextCandidate(s, p, r.err, TRUE)
        o == s1.ops[p]
        e == thrownAfterLoop(o, "Role update failed.")
    IN  IF o.pc \notin {"break", "exhausted"} THEN s1
        ELSE IF ~Truthy(o.res)
        THEN finish(toastBy(s1, p, [type |-> "error", title |-> "Update failed",
                                    description |-> e.message]), p, "error", e)
        ELSE LET s2 == toastBy(s1, p, [type |-> "success", title |-> "Role updated",
                                       description |-> ""])
             IN  finish(setList(s2, p, "users",
                                ReplaceById(s2.pg.users, Field(o.arg, "userId"), o.res)),
                        p, "ok", NoErr)

\* ------------------------------------------------------------ ProjectsPage
\* validateProject(form): the name as the sequence of its characters.
\* Mutant: the name is measured without trimming.
validateProjectUntrimmed(form) ==
    IF form.name = <<>> \/ Len(form.name) < 2
    THEN [name |-> "Name must be at least 2 characters."]
    ELSE NoErrors

validateProject(form) ==
    IF form.name = <<>> \/ Len(Trim(form.name)) < 2
    THEN [name |-> "Name must be at least 2 characters."]
    ELSE NoErrors

NewProjectForm == [name |-> <<>>, description |-> <<>>, status |-> "active"]

startCreate(s) ==
    [s EXCEPT !.pg.mode = "create", !.pg.selected = JNull,
              !.pg.form = NewProjectForm, !.pg.errors = NoErrors]

\* p?.name || "", p?.description || "", p?.status || "active"
startEdit(s, p) ==
    LET text(k) == IF Get(p, k).t = "string" THEN Get(p, k).v ELSE <<>>
    IN  [s EXCEPT !.pg.mode = "edit", !.pg.selected = p,
                  !.pg.form = [name |-> text("name"), description |-> text("description"),
                               status |-> IF Truthy(Get(p, "status"))
                                          THEN String(Get(p, "status")) ELSE "active"],
                  !.pg.errors = NoErrors]

ProjectBody(form) ==
    JObj([name |-> Chars(form.name), description |-> Chars(form.description),
          status |-> JStr(form.status)])

\* save up to its request: the mode and the selected project are those of the
\* render in which Save was pressed.
save(s) ==
    LET v == validateProject(s.pg.form)
        s1 == [s EXCEPT !.pg.errors = v]
    IN  IF DOMAIN v # {} THEN s1
        ELSE IF s.pg.mode = "create"
        THEN startOp(s1, "ProjectsPage.save",
                     JObj([mode |-> JStr("create"), id |-> Undef, body |-> ProjectBody(s.pg.form)]))
        ELSE IF s.pg.mode = "edit" /\ NotNullish(Get(s.pg.selected, "id"))
        THEN startOp(s1, "ProjectsPage.save",
                     JObj([mode |-> JStr("edit"), id |-> Get(s.pg.selected, "id"),
                           body |-> ProjectBody(s.pg.form)]))
        ELSE s1

\* save after its request: r is the answer.
saveOnResponse(s, p, r) ==
    LET o == s.ops[p]
        create == Field(o.arg, "mode") = JStr("create")
    IN  IF ~r.ok
        THEN finish(toastBy(s, p, [type |-> "error", title |-> "Save failed",
                                   description |-> r.err.message]), p, "error", r.err)
        ELSE LET s1 == [s EXCEPT !.ops[p].res = r.data]
                 s2 == toastBy(s1, p, [type |-> "success",
                                       title |-> IF create THEN "Project created"
                                                 ELSE "Project updated",
                                       description |-> ""])
                 s3 == IF create
                       THEN setList(s2, p, "projects", Prepend(r.data, s2.pg.projects))
                       ELSE setPg(setList(s2, p, "projects",
                                          ReplaceById(s2.pg.projects, Field(o.arg, "id"), r.data)),
                                  p, [s2.pg EXCEPT
                                        !.projects = ReplaceById(s2.pg.projects,
                                                                 Field(o.arg, "id"), r.data),
                                        !.selected = r.data])
             IN  finish(setPg(s3, p, [s3.pg EXCEPT !.mode = "none"]), p, "ok", NoErr)

\* { ...x, status: "archived" }
Archived(x) ==
    JObj([k \in DOMAIN x.v \cup {"status"} |->
            IF k = "status" THEN JStr("archived") ELSE x.v[k]])

\* archiveOrDelete(p) up to the PATCH; selected is that of the render in which
\* the button was pressed.
archiveOrDelete(s, proj) ==
    startOp(s, "ProjectsPage.archiveOrDelete",
            JObj([p |-> proj, id |-> Get(proj, "id"), selected |-> s.pg.selected]))

\* archiveOrDelete after the PATCH (idx 1) or after the DELETE (idx 2): r is
\* the answer.
\* Mutant: the DELETE is issued after the PATCH whether it failed or not.
archiveOrDeleteOnResponseNoReturn(s, p, r) ==
    LET o == s.ops[p]
    IN  IF o.idx = 1
        THEN nextCandidate(IF r.ok
                           THEN toastBy(s, p, [type |-> "success", title |-> "Project archived",
                                               description |-> ""])
                           ELSE s, p, r.err, FALSE)
        ELSE IF r.ok
             THEN finish(toastBy(s, p, [type |-> "success", title |-> "Project deleted",
                                        description |-> ""]), p, "ok", NoErr)
             ELSE finish(toastBy(s, p, [type |-> "error", title |-> "Action failed",
                                        description |-> r.err.message]), p, "error", r.err)

archiveOrDeleteOnResponse(s, p, r) ==
    LET o == s.ops[p]
        id == Field(o.arg, "id")
    IN  IF o.idx = 1
        THEN IF r.ok
             THEN LET s1 == toastBy(s, p, [type |-> "success", title |-> "Project archived",
                                           description |-> ""])
                      list == [i \in 1..Len(s1.pg.projects) |->
                                 IF Get(s1.pg.projects[i], "id") = id
                                 THEN Archived(s1.pg.projects[i]) ELSE s1.pg.projects[i]]
                  IN  finish(IF s1.ops[p].live THEN setList(s1, p, "projects", list) ELSE s1,
                             p, "ok", NoErr)
             ELSE nextCandidate(s, p, r.err, FALSE)
        ELSE IF r.ok
             THEN LET s1 == toastBy(s, p, [type |-> "success", title |-> "Project deleted",
                                           description |-> ""])
                      s2 == IF s1.ops[p].live
                            THEN setList(s1, p, "projects",
                                         SelectSeq(s1.pg.projects,
                                                   LAMBDA x : Get(x, "id") # id))
                            ELSE s1
                      s3 == IF Get(Field(o.arg, "selected"), "id") = id
                            THEN setPg(s2, p, [s2.pg EXCEPT !.selected = JNull])
                            ELSE s2
                  IN  finish(s3, p, "ok", NoErr)
             ELSE finish(toastBy(s, p, [type |-> "error", title |-> "Action failed",
                                        description |-> r.err.message]), p, "error", r.err)

\* ------------------------------------------------------------ RolesPage
\* selectRole up to the first request.
selectRole(s, role) ==
    startOp([s EXCEPT !.pg.selectedRole = role, !.pg.rolePerms = {}],
            "RolesPage.selectRole", JObj([id |-> Get(role, "id")]))

\* data?.permissions || data?.perms || data
PermsOf(data) ==
    IF Truthy(Get(data, "permissions")) THEN Get(data, "permissions")
    ELSE IF Truthy(Get(data, "perms")) THEN Get(data, "perms")
    ELSE data

\* typeof p === "string" ? p : p.key || p.name, as a property name
PermKey(p) ==
    IF p.t = "string" THEN p.v
    ELSE IF Truthy(Get(p, "key")) THEN String(Get(p, "key"))
    ELSE String(Get(p, "name"))

\* Reading p.key throws for an entry that is null or undefined.
PermThrows(list) == \E i \in 1..Len(list) : list[i].t \in {"null", "undefined"}

\* The loop of selectRole for the answer r; rolePerms is held as the set of the
\* keys whose value is true.
selectRoleOnResponse(s, p, r) ==
    LET list == normalizeListRoles(PermsOf(r.data))
    IN  IF r.ok /\ ~PermThrows(list)
        THEN LET s1 == [s EXCEPT !.ops[p].res = r.data]
             IN  finish(setPg(s1, p, [s1.pg EXCEPT !.rolePerms =
                                         {PermKey(list[i]) : i \in 1..Len(list)}]),
                        p, "ok", NoErr)
        ELSE LET s1 == nextCandidate(s, p, IF r.ok THEN Error("TypeError") ELSE r.err, FALSE)
             IN  IF s1.ops[p].pc = "exhausted" THEN finish(s1, p, "silent", NoErr) ELSE s1

\* Object.entries(rolePerms).filter(([, v]) => v).map(([k]) => k), in some order.
RECURSIVE SeqOf(_)
SeqOf(S) == IF S = {} THEN <<>>
            ELSE LET x == CHOOSE y \in S : TRUE IN <<JStr(x)>> \o SeqOf(S \ {x})

savePermissions(s) ==
    IF ~Truthy(Get(s.pg.selectedRole, "id")) THEN s
    ELSE startOp(s, "RolesPage.savePermissions",
                 JObj([id |-> Get(s.pg.selectedRole, "id"),
                       keys |-> JArr(SeqOf(s.pg.rolePerms))]))

\* The loop with the ok flag, of savePermissions and of assignRoleToUser.
flagOnResponse(s, p, r, success, failure, generic) ==
    LET s1 == IF r.ok THEN [s EXCEPT !.ops[p].okFlag = TRUE, !.ops[p].pc = "break"]
              ELSE nextCandidate(s, p, r.err, TRUE)
        o == s1.ops[p]
        e == thrownAfterLoop(o, generic)
    IN  IF o.pc \notin {"break", "exhausted"} THEN s1
        ELSE IF ~o.okFlag
        THEN finish(toastBy(s1, p, [type |-> "error", title |-> failure,
                                    description |-> e.message]), p, "error", e)
        ELSE finish(toastBy(s1, p, [type |-> "success", title |-> success,
                                    description |-> ""]), p, "ok", NoErr)

savePermissionsOnResponse(s, p, r) ==
    flagOnResponse(s, p, r, "Permissions saved", "Save failed", "Save failed.")

assignRoleToUser(s) ==
    IF ~Truthy(Get(s.pg.selectedRole, "id")) \/ s.pg.assignUserId = "" THEN s
    ELSE startOp(s, "RolesPage.assignRoleToUser",
                 JObj([userId |-> JStr(s.pg.assignUserId),
                       roleId |-> Get(s.pg.selectedRole, "id")]))

assignRoleToUserOnResponse(s, p, r) ==
    flagOnResponse(s, p, r, "Role assigned", "Assign failed", "Assign failed.")

\* ------------------------------------------------------------ the application at rest
AppIdle ==
    /\ storedToken = NoToken
    /\ token = NoToken
    /\ user = JNull
    /\ initializing = TRUE
    /\ eff = IdleEff
    /\ stale = 0
    /\ route = "/"
    /\ pg = [page |-> "none"]
    /\ ops = [p \in OpIds |-> FreeOp]
    /\ toasts = <<>>
    /\ toastId = 0
    /\ toastTimers = {}

\* ------------------------------------------------------------ specification
UIIdle ==
    /\ now = 0
    /\ globalLoading = FALSE
    /\ loadingTimer = NoTimer
    /\ rq = [r \in Reqs |-> IdleReq]
    /\ hides = 0
    /\ secondStart = NoTime
    /\ lastEnd = NoTime
    /\ overlapped = FALSE
    /\ longGap = FALSE

PureIdle ==
    /\ pureFn = "none"
    /\ pureIn = Undef
    /\ pureOut = Undef
    /\ pureDone = FALSE

InitUI ==
    /\ UIIdle
    /\ PureIdle
    /\ AppIdle

NextUI ==
    \/ \E r \in Reqs : RequestStart(r)
    \/ \E r \in Reqs, o \in Outcomes : RequestSettle(r, o)
    \/ TimerFire
    \/ Tick

SpecUI == InitUI /\ [][NextUI]_vars

\* ------------------------------------------------------------ claims on the hub and the client

\* C3: whenever at least one request is in flight, the global loading signal is true.
C3_LoadingWhileInFlight == InFlight # {} => globalLoading

\* The history so far is (a prefix of) the scenario of C4: the first request starts
\* at t0 = 0, the second at t0 + 10 while the first is in flight, no third request,
\* and both settle by t0 + 50.
Scenario4 ==
    \/ NStarted = 1 /\ InFlight # {} /\ now <= 10
    \/ /\ NStarted = 2
       /\ secondStart = 10
       /\ overlapped
       /\ IF NSettled = 2 THEN lastEnd <= 50 ELSE now <= 50

\* C4: in that scenario the signal is true from t0 until GraceMs after the later
\* completion, false afterwards, and went false at most that one time.
C4_OverlapNoBlip ==
    Scenario4 =>
        /\ (InFlight # {} \/ now < lastEnd + GraceMs) => globalLoading
        /\ ~globalLoading => (NSettled = 2 /\ now >= lastEnd + GraceMs /\ hides = 1)
        /\ (NSettled = 2 /\ now > lastEnd + GraceMs) => ~globalLoading
        /\ globalLoading => hides = 0

C4_Witness ==
    /\ Scenario4
    /\ NSettled = 2
    /\ lastEnd = 50
    /\ now > lastEnd + GraceMs
    /\ ~globalLoading

\* The requests so far were sequential and each started less than GraceMs after
\* the previous one settled.
Scenario5 == NStarted >= 1 /\ ~overlapped /\ ~longGap

\* C5: for such back-to-back requests the signal is true from the first start, a
\* start leaves no hide timer pending, and the signal becomes false once only,
\* GraceMs after the last request settled.
C5_BackToBackNoFlicker ==
    Scenario5 =>
        /\ InFlight # {} => (globalLoading /\ loadingTimer = NoTimer)
        /\ (InFlight = {} /\ globalLoading) => (loadingTimer = lastEnd + GraceMs /\ hides = 0)
        /\ ~globalLoading => (InFlight = {} /\ now >= lastEnd + GraceMs /\ hides = 1)
        /\ now > lastEnd + GraceMs => (InFlight # {} \/ ~globalLoading)

C5_Witness ==
    /\ Scenario5
    /\ NSettled = 3
    /\ secondStart >= 20
    /\ lastEnd > secondStart
    /\ ~globalLoading
    /\ hides = 1

\* C6: a call of request has emitted onLoading(true) once when the fetch is issued
\* and nothing before, and onLoading(false) once when it has settled and not
\* before, whatever the outcome.
C6_SignalsOncePerRequest ==
    \A r \in Reqs :
        /\ rq[r].pc = "idle" => (rq[r].busy = 0 /\ rq[r].idle = 0)
        /\ rq[r].pc = "fetch" => (rq[r].busy = 1 /\ rq[r].idle = 0)
        /\ rq[r].pc = "settled" => (rq[r].busy = 1 /\ rq[r].idle = 1)

C6_Witness ==
    \E a, b, c \in Reqs :
        /\ rq[a].pc = "settled" /\ rq[a].out = "ok"
        /\ rq[b].pc = "settled" /\ rq[b].out = "http"
        /\ rq[c].pc = "settled" /\ rq[c].out = "net"
        /\ \A r \in {a, b, c} : rq[r].busy = 1 /\ rq[r].idle = 1

\* ------------------------------------------------------------ pure functions on inputs
TokenFields == <<"access_token", "token", "jwt">>
FieldNames == {TokenFields[i] : i \in 1..Len(TokenFields)}
FieldValues == {JNull, JStr(""), JStr("A"), JStr("B")}

\* Response bodies given to normalizeAuthResponse: every object over the token
\* fields (each absent, null, empty or a token string), and values that are no
\* such object.
AuthBodies ==
    UNION {{JObj(f) : f \in [fs -> FieldValues]} : fs \in SUBSET FieldNames}
    \cup {JNull, Undef, JStr("A"), JStr(""), JArr(<<>>), JArr(<<JStr("A")>>)}

\* Body texts of responses: empty, JSON, and not JSON.
BodyTexts == DOMAIN JsonTexts \cup {"", "Not Found", "<html>", "{\"detail\":"}

\* Statuses of responses, inside and at both sides of 200..299.
Statuses == {200, 201, 204, 299, 300, 304, 400, 401, 404, 422, 500}

\* Bodies given to normalizeList: arrays, objects whose items and data fields
\* are absent, an array or something else, and values that are neither.
ListFieldValues == {JArr(<<>>), JArr(<<JStr("a")>>), JArr(<<JStr("b"), JNull>>), JStr("x"), JNull,
                    JObj([items |-> JArr(<<JStr("c")>>)])}
ListBodies ==
    UNION {{JObj(f) : f \in [fs -> ListFieldValues]} : fs \in SUBSET {"items", "data", "total"}}
    \cup {JArr(<<>>), JArr(<<JStr("a"), JStr("b")>>), JNull, Undef, JStr(""), JStr("items")}

\* What a backend answers to a profile route: nothing, a 2xx without a body,
\* a 2xx with a profile.
MeAnswers == {NetFailure, Http(200, JNull), Http(200, JObj([id |-> JStr("u1")]))}

InitPure ==
    /\ UIIdle
    /\ AppIdle
    /\ \/ pureFn = "normalizeAuthResponse" /\ pureIn \in AuthBodies
       \/ pureFn = "normalizeList" /\ pureIn \in ListBodies
       \/ pureFn = "safeJsonParse" /\ pureIn \in {Chars(t) : t \in BodyTexts}
       \/ /\ pureFn = "request"
          /\ pureIn \in {[status |-> st, text |-> t] : st \in Statuses, t \in BodyTexts}
       \/ pureFn = "bestEffortGetMe" /\ pureIn \in [1..Len(MeCandidates) -> MeAnswers]
    /\ pureOut = Undef
    /\ pureDone = FALSE

ApplyNormalizeAuthResponse ==
    /\ pureFn = "normalizeAuthResponse"
    /\ ~pureDone
    /\ pureOut' = normalizeAuthResponse(pureIn)
    /\ pureDone' = TRUE
    /\ UNCHANGED <<pureFn, pureIn, uiVars, appVars>>

ApplySafeJsonParse ==
    /\ pureFn = "safeJsonParse"
    /\ ~pureDone
    /\ pureOut' = safeJsonParse(pureIn.v)
    /\ pureDone' = TRUE
    /\ UNCHANGED <<pureFn, pureIn, uiVars, appVars>>

ApplyRequest ==
    /\ pureFn = "request"
    /\ ~pureDone
    /\ pureOut' = request(pureIn.status, pureIn.text)
    /\ pureDone' = TRUE
    /\ UNCHANGED <<pureFn, pureIn, uiVars, appVars>>

\* The three copies of normalizeList on the same body.
ApplyNormalizeList ==
    /\ pureFn = "normalizeList"
    /\ ~pureDone
    /\ pureOut' = [projects |-> normalizeListProjects(pureIn),
                   users |-> normalizeListUsers(pureIn),
                   roles |-> normalizeListRoles(pureIn)]
    /\ pureDone' = TRUE
    /\ UNCHANGED <<pureFn, pureIn, uiVars, appVars>>

\* bestEffortGetMe with a client whose requests are answered by pureIn.
ApplyBestEffortGetMe ==
    /\ pureFn = "bestEffortGetMe"
    /\ ~pureDone
    /\ pureOut' = bestEffortGetMeFrom(1, pureIn)
    /\ pureDone' = TRUE
    /\ UNCHANGED <<pureFn, pureIn, uiVars, appVars>>

NextPure ==
    \/ ApplyNormalizeAuthResponse
    \/ ApplyNormalizeList
    \/ ApplySafeJsonParse
    \/ ApplyRequest
    \/ ApplyBestEffortGetMe

SpecPure == InitPure /\ [][NextPure]_vars

\* ------------------------------------------------------------ claims on the pure functions

\* The positions in access_token, token, jwt whose field holds a usable (truthy) value.
UsableTokenFields(data) == {i \in 1..Len(TokenFields) : Truthy(Get(data, TokenFields[i]))}

\* C10: the extracted token is the value of the first of access_token, token, jwt
\* that is present with a usable value, and null when the body is not an object
\* or none of the three is usable.
C10_TokenExtractionOrder ==
    (pureDone /\ pureFn = "normalizeAuthResponse") =>
        LET usable == UsableTokenFields(pureIn)
        IN  IF pureIn.t # "object" \/ usable = {}
            THEN pureOut = JNull
            ELSE \E i \in usable :
                    /\ \A j \in usable : i <= j
                    /\ pureOut = Get(pureIn, TokenFields[i])

\* access_token is unusable (empty), token and jwt hold different tokens: token wins.
C10_Witness ==
    /\ pureDone
    /\ pureFn = "normalizeAuthResponse"
    /\ pureIn = JObj([access_token |-> JStr(""), token |-> JStr("A"), jwt |-> JStr("B")])
    /\ pureOut = JStr("A")


\* ------------------------------------------------------------ what the backend may answer
Profile == JObj([id |-> JStr("u1")])

FailRaws == {NetFailure, Http(500, JNull)}

MeRaws == {NetFailure, Http(200, JNull), Http(200, Profile)}

User1 == JObj([id |-> JStr("u1")])
User2 == JObj([id |-> JStr("u2")])
Role1 == JObj([id |-> JStr("r1")])
Role2 == JObj([id |-> JStr("r2")])
Project1 == JObj([id |-> JStr("p1"), status |-> JStr("active")])
Project2 == JObj([id |-> JStr("p2"), status |-> JStr("active")])
ProjectNoId == JObj([status |-> JStr("active")])    \* a project the backend gave no id
Project3 == JObj([id |-> JStr("p1"), status |-> JStr("on-hold")])   \* a status of the backend's own

Raws(kind) ==
    CASE kind = "login" ->
            FailRaws \cup {Http(200, JObj([access_token |-> JStr("t1")])),
                           Http(200, JObj([token |-> JStr("t2")])),
                           Http(200, JObj([message |-> JStr("ok")]))}
      [] kind = "register" ->
            FailRaws \cup {Http(201, JNull), Http(200, JObj([jwt |-> JStr("t2")]))}
      [] kind = "ProjectsPage.load" ->
            FailRaws \cup {Http(200, JArr(<<Project1>>)), Http(200, JArr(<<ProjectNoId>>))}
      [] kind = "ProjectsPage.save" ->
            FailRaws \cup {Http(201, Project2), Http(200, Project3), Http(204, JNull)}
      [] kind = "ProjectsPage.archiveOrDelete" ->
            FailRaws \cup {Http(204, JNull)}
      [] kind \in {"UsersPage.loadUsers", "RolesPage.loadUsers"} ->
            FailRaws \cup {Http(200, JObj([items |-> JArr(<<User1>>)]))}
      [] kind = "UsersPage.loadRoles" ->
            FailRaws \cup {Http(200, JObj([data |-> JArr(<<Role1>>)]))}
      [] kind = "RolesPage.loadRoles" ->
            FailRaws \cup {Http(200, JObj([data |-> JArr(<<Role1>>)])),
                           Http(200, JArr(<<Role1, Role2>>))}
      [] kind = "UsersPage.submitInvite" ->
            FailRaws \cup {Http(201, User2), Http(204, JNull)}
      [] kind = "UsersPage.updateUserRole" ->
            FailRaws \cup {Http(200, JObj([id |-> JStr("u1"), roleId |-> JStr("r1")])),
                           Http(204, JNull)}
      [] kind = "RolesPage.selectRole" ->
            FailRaws \cup {Http(200, JObj([permissions |-> JArr(<<JStr("users.read")>>)])),
                           Http(200, JArr(<<JNull>>))}
      [] kind \in {"RolesPage.savePermissions", "RolesPage.assignRoleToUser"} ->
            FailRaws \cup {Http(204, JNull)}
      [] OTHER -> FailRaws

\* The answers the specifications of the whole application draw from: the
\* backend has one role there and gives every project an id.
AllRaws ==
    UNION {Raws(k) : k \in {"login", "register", "ProjectsPage.load", "ProjectsPage.save",
                            "UsersPage.loadUsers",
                            "UsersPage.loadRoles", "UsersPage.submitInvite",
                            "UsersPage.updateUserRole", "RolesPage.selectRole",
                            "RolesPage.savePermissions"}}
        \ {Http(200, JArr(<<ProjectNoId>>))}

\* The candidate answered r "fails": request threw, or (login) the body has no token.
CandidateFails(kind, r) ==
    \/ ~r.ok
    \/ kind = "login" /\ ~Truthy(normalizeAuthResponse(r.data))

\* request() returns or throws into the handler: finally onLoading?.(false).
\* The answer is noted: how many answers, how many of them failing and the
\* error of the latest, the first that did not fail and its body.
\* Mutant: an answer 401 makes the client drop the credential.
receivedDropsCredential(s, p, raw) ==
    LET o == s.ops[p]
        r == requestResult(raw)
        fails == CandidateFails(o.kind, r)
        first == o.okAt = 0 /\ ~fails
        o1 == [o EXCEPT !.recv = @ + 1,
                        !.failed = IF fails THEN @ + 1 ELSE @,
                        !.lastFail = IF ~fails THEN @
                                     ELSE IF r.ok THEN Error(TokenlessMessage) ELSE r.err,
                        !.okAt = IF first THEN o.idx ELSE @,
                        !.okData = IF first THEN r.data ELSE @]
        s1 == IF ~raw.net /\ raw.status = 401
              THEN [clearToken(s) EXCEPT !.token = NoToken]
              ELSE s
    IN  settle([s1 EXCEPT !.ops[p] = o1], HasLoading(o.kind))

received(s, p, raw) ==
    LET o == s.ops[p]
        r == requestResult(raw)
        fails == CandidateFails(o.kind, r)
        first == o.okAt = 0 /\ ~fails
        o1 == [o EXCEPT !.recv = @ + 1,
                        !.failed = IF fails THEN @ + 1 ELSE @,
                        !.lastFail = IF ~fails THEN @
                                     ELSE IF r.ok THEN Error(TokenlessMessage) ELSE r.err,
                        !.okAt = IF first THEN o.idx ELSE @,
                        !.okData = IF first THEN r.data ELSE @]
    IN  settle([s EXCEPT !.ops[p] = o1], HasLoading(o.kind))

onResponse(s, p, r) ==
    LET kind == s.ops[p].kind
    IN  CASE kind = "login" -> LoginPageAfterLogin(loginOnResponse(s, p, r), p)
          [] kind = "register" -> RegisterPageAfterRegister(registerOnResponse(s, p, r), p)
          [] kind = "ProjectsPage.load" ->
                loadOnResponse(s, p, r, normalizeListProjects(r.data), "projects",
                               "Failed to load projects", "Unable to load projects.")
          [] kind = "ProjectsPage.save" -> saveOnResponse(s, p, r)
          [] kind = "ProjectsPage.archiveOrDelete" -> archiveOrDeleteOnResponse(s, p, r)
          [] kind = "UsersPage.loadUsers" ->
                loadOnResponse(s, p, r, normalizeListUsers(r.data), "users",
                               "Failed to load users", "Unable to load users.")
          [] kind = "UsersPage.loadRoles" ->
                loadOnResponse(s, p, r, normalizeListUsers(r.data), "roles", "", "")
          [] kind = "RolesPage.loadRoles" ->
                loadOnResponse(s, p, r, normalizeListRoles(r.data), "roles",
                               "Failed to load roles", "Unable to load roles.")
          [] kind = "RolesPage.loadUsers" ->
                loadOnResponse(s, p, r, normalizeListRoles(r.data), "users", "", "")
          [] kind = "UsersPage.submitInvite" -> submitInviteOnResponse(s, p, r)
          [] kind = "UsersPage.updateUserRole" -> updateUserRoleOnResponse(s, p, r)
          [] kind = "RolesPage.selectRole" -> selectRoleOnResponse(s, p, r)
          [] kind = "RolesPage.savePermissions" -> savePermissionsOnResponse(s, p, r)
          [] kind = "RolesPage.assignRoleToUser" -> assignRoleToUserOnResponse(s, p, r)
          [] OTHER -> s

onMe(s, p, r) ==
    CASE s.ops[p].kind = "login" -> LoginPageAfterLogin(loginOnMe(s, p, r), p)
      [] s.ops[p].kind = "register" -> RegisterPageAfterRegister(registerOnMe(s, p, r), p)
      [] OTHER -> s

\* ------------------------------------------------------------ form inputs
Rep(c, n) == [i \in 1..n |-> c]
Emails == {<<"a", "@", "b", ".", "c">>, <<"a", "@", "b">>}
Passwords == {Rep("x", 5), Rep("x", 8)}
Names == {<<"A", "l">>, <<" ", "A", " ">>}
ProjectNames == {<<"Q">>, <<"Q", "2">>, <<"Q", " ">>}
LogoutToasts == {"See you next time.", ""}     \* the description of the two buttons

\* ------------------------------------------------------------ actions of the application
\* The effect of AuthProvider after the first render.
EffectRun ==
    /\ eff.pc = "idle"
    /\ Commit(render(runInit(St)))

\* The profile fetch of init() gets an answer.
\* Mutant: the run that ends its profile fetch leaves initializing as it is.
EffectMeResponseKeepsInitializing(raw) ==
    /\ eff.pc = "getme"
    /\ LET st == bestEffortGetMe(eff.idx, requestResult(raw))
           s1 == IF st.done
                 THEN [St EXCEPT !.user = st.me, !.eff.pc = "done"]
                 ELSE [St EXCEPT !.eff.idx = @ + 1,
                                 !.eff.sent = Append(@, MeReq(eff.idx + 1, eff.tok))]
       IN  Commit(render(s1))

EffectMeResponse(raw) ==
    /\ eff.pc = "getme"
    /\ LET st == bestEffortGetMe(eff.idx, requestResult(raw))
           s1 == IF st.done
                 THEN [St EXCEPT !.user = st.me, !.initializing = FALSE, !.eff.pc = "done"]
                 ELSE [St EXCEPT !.eff.idx = @ + 1,
                                 !.eff.sent = Append(@, MeReq(eff.idx + 1, eff.tok))]
       IN  Commit(render(s1))

\* The profile fetch of a cancelled run, at candidate idx, gets an answer: no
\* state is set (if (!cancelled)), the run goes on or ends.
StaleMeResponse(idx, raw) ==
    /\ stale > 0
    /\ LET st == bestEffortGetMe(idx, requestResult(raw))
       IN  Commit(render(IF st.done THEN [St EXCEPT !.stale = @ - 1] ELSE St))

LoginSubmit(email, password) ==
    /\ eff.pc # "idle"
    /\ pg.page = "/login" /\ ~pg.submitting
    /\ Commit(render(LoginPageOnSubmit(St, email, password)))

RegisterSubmit(name, email, password) ==
    /\ eff.pc # "idle"
    /\ pg.page = "/register" /\ ~pg.submitting
    /\ Commit(render(RegisterPageOnSubmit(St, name, email, password)))

\* DashboardLayout: the two Logout buttons.
LogoutClick(description) ==
    /\ pg.page \in {"/projects", "/users", "/roles"}
    /\ LET s1 == pushToast(logout(St), [type |-> "success", title |-> "Logged out",
                                        description |-> description])
       IN  Commit(render([s1 EXCEPT !.route = "/login"]))

\* A link, or the history of the browser.
Navigate(r) ==
    /\ eff.pc # "idle"
    /\ r # route
    /\ Commit(render([St EXCEPT !.route = r]))

\* A candidate request of invocation p gets its answer.
Respond(p, raw) ==
    /\ ops[p].pc = "await"
    /\ raw \in Raws(ops[p].kind)
    /\ Commit(render(onResponse(received(St, p, raw), p, requestResult(raw))))

SessionKinds == {"login", "register"}

\* ... a request of login or register
AuthResponse(p, raw) ==
    /\ ops[p].kind \in SessionKinds
    /\ Respond(p, raw)

\* ... a request of a page
PageResponse(p, raw) ==
    /\ ops[p].kind \notin SessionKinds
    /\ Respond(p, raw)

\* The user starts a handler that issues requests.
CanStart == Cardinality({p \in OpIds : Running(ops[p])}) < MaxBusy

\* UsersPage: the Invite button, the email field, the Send button, a role select.
OpenInvite ==
    /\ pg.page = "/users"
    /\ Commit(render(openInvite(St)))

InviteInput(email) ==
    /\ pg.page = "/users" /\ pg.inviteOpen
    /\ Commit(render([St EXCEPT !.pg.inviteForm.email = email]))

SubmitInvite ==
    /\ CanStart
    /\ pg.page = "/users" /\ pg.inviteOpen
    /\ Commit(render(submitInvite(St)))

RoleIds(roles) == {String(Get(roles[j], "id")) : j \in 1..Len(roles)}

UpdateUserRole(i, roleId) ==
    /\ CanStart
    /\ pg.page = "/users"
    /\ i \in 1..Len(pg.users)
    /\ Truthy(Get(pg.users[i], "id"))
    /\ roleId \in {""} \cup RoleIds(pg.roles)
    /\ Commit(render(updateUserRole(St, Get(pg.users[i], "id"), roleId)))

\* ProjectsPage: New project, Edit and Archive/Delete of a row, the name
\* field, Save.
StartCreate ==
    /\ pg.page = "/projects"
    /\ Commit(render(startCreate(St)))

StartEdit(i) ==
    /\ pg.page = "/projects"
    /\ i \in 1..Len(pg.projects)
    /\ Commit(render(startEdit(St, pg.projects[i])))

NameInput(name) ==
    /\ pg.page = "/projects" /\ pg.mode # "none"
    /\ Commit(render([St EXCEPT !.pg.form.name = name]))

Save ==
    /\ CanStart
    /\ pg.page = "/projects" /\ pg.mode # "none"
    /\ Commit(render(save(St)))

ArchiveOrDelete(i) ==
    /\ CanStart
    /\ pg.page = "/projects"
    /\ i \in 1..Len(pg.projects)
    /\ Commit(render(archiveOrDelete(St, pg.projects[i])))

\* RolesPage: a role button, the user select, Save permissions, Assign.
SelectRole(i) ==
    /\ CanStart
    /\ pg.page = "/roles"
    /\ i \in 1..Len(pg.roles)
    /\ Commit(render(selectRole(St, pg.roles[i])))

\* The user presses a role button while the permissions of the role pressed
\* before are still being fetched.
MaxSelecting == 2

Selecting == {p \in OpIds : ops[p].kind = "RolesPage.selectRole" /\ Running(ops[p])}

ReselectRole(i) ==
    /\ Selecting # {} /\ Cardinality(Selecting) < MaxSelecting
    /\ pg.page = "/roles"
    /\ i \in 1..Len(pg.roles)
    /\ Commit(render(selectRole(St, pg.roles[i])))

SetAssignUserId(i) ==
    /\ pg.page = "/roles" /\ Truthy(pg.selectedRole)
    /\ i \in 1..Len(pg.users)
    /\ Commit(render([St EXCEPT !.pg.assignUserId = String(Get(pg.users[i], "id"))]))

SavePermissions ==
    /\ CanStart
    /\ pg.page = "/roles" /\ Truthy(pg.selectedRole)
    /\ Commit(render(savePermissions(St)))

AssignRoleToUser ==
    /\ CanStart
    /\ pg.page = "/roles" /\ Truthy(pg.selectedRole) /\ pg.assignUserId # ""
    /\ Commit(render(assignRoleToUser(St)))

\* The profile fetch of login or register gets an answer.
OpMeResponse(p, raw) ==
    /\ ops[p].pc = "getme"
    /\ Commit(render(onMe(St, p, requestResult(raw))))

\* setTimeout(() => removeToast(id), timeoutMs) fires.
ToastExpire(id) ==
    /\ id \in toastTimers
    /\ Commit([removeToast(St, id) EXCEPT !.toastTimers = @ \ {id}])

\* ToastViewport: the close button.
ToastDismiss(id) ==
    /\ \E i \in 1..Len(toasts) : toasts[i].id = id
    /\ Commit(removeToast(St, id))

\* The hide timer of setLoading fires (the application is modelled without clock).
HideTimer ==
    /\ loadingTimer # NoTimer
    /\ Commit([St EXCEPT !.loading = FALSE, !.timer = NoTimer])

\* ------------------------------------------------------------ specification of the application
\* The application is loaded at some location, with or without a stored credential.
Init ==
    /\ UIIdle
    /\ PureIdle
    /\ storedToken \in {NoToken, "t1"}
    /\ token = storedToken
    /\ user = JNull
    /\ initializing = TRUE
    /\ eff = IdleEff
    /\ stale = 0
    /\ route \in Routes
    /\ pg = InitPg(IF route \in PublicRoutes THEN route ELSE "none")
    /\ ops = [p \in OpIds |-> FreeOp]
    /\ toasts = <<>>
    /\ toastId = 0
    /\ toastTimers = {}

Next ==
    \/ EffectRun
    \/ \E raw \in MeRaws : EffectMeResponse(raw)
    \/ \E i \in 1..Len(MeCandidates), raw \in MeRaws : StaleMeResponse(i, raw)
    \/ \E e \in Emails, pw \in Passwords : LoginSubmit(e, pw)
    \/ \E n \in Names, e \in Emails, pw \in Passwords : RegisterSubmit(n, e, pw)
    \/ \E d \in LogoutToasts : LogoutClick(d)
    \/ \E r \in Routes : Navigate(r)
    \/ \E p \in OpIds, raw \in AllRaws : AuthResponse(p, raw)
    \/ \E p \in OpIds, raw \in AllRaws : PageResponse(p, raw)
    \/ \E p \in OpIds, raw \in MeRaws : OpMeResponse(p, raw)
    \/ StartCreate
    \/ \E i \in 1..MaxList : StartEdit(i)
    \/ \E n \in ProjectNames : NameInput(n)
    \/ Save
    \/ \E i \in 1..MaxList : ArchiveOrDelete(i)
    \/ OpenInvite
    \/ \E e \in Emails : InviteInput(e)
    \/ SubmitInvite
    \/ \E i \in 1..MaxList, r \in {"", "r1"} : UpdateUserRole(i, r)
    \/ \E i \in 1..MaxList : SelectRole(i)
    \/ \E i \in 1..MaxList : ReselectRole(i)
    \/ \E i \in 1..MaxList : SetAssignUserId(i)
    \/ SavePermissions
    \/ AssignRoleToUser
    \/ \E id \in 1..toastId : ToastExpire(id)
    \/ \E id \in 1..toastId : ToastDismiss(id)
    \/ HideTimer

Spec == Init /\ [][Next]_vars

\* The session alone: the pages' requests stay unanswered, the user stays on
\* the page the application puts them on.
NextSession ==
    \/ EffectRun
    \/ \E raw \in MeRaws : EffectMeResponse(raw)
    \/ \E i \in 1..Len(MeCandidates), raw \in MeRaws : StaleMeResponse(i, raw)
    \/ \E e \in Emails, pw \in Passwords : LoginSubmit(e, pw)
    \/ \E n \in Names, e \in Emails, pw \in Passwords : RegisterSubmit(n, e, pw)
    \/ \E d \in LogoutToasts : LogoutClick(d)
    \/ \E p \in OpIds, raw \in AllRaws : AuthResponse(p, raw)
    \/ \E p \in OpIds, raw \in MeRaws : OpMeResponse(p, raw)
    \/ \E id \in 1..toastId : ToastExpire(id)

SpecSession == Init /\ [][NextSession]_vars

\* The handlers that probe for an endpoint, page by page: the user stays on
\* the page the application puts them on and does not log out.
NextProbing ==
    \/ EffectRun
    \/ \E raw \in MeRaws : EffectMeResponse(raw)
    \/ \E i \in 1..Len(MeCandidates), raw \in MeRaws : StaleMeResponse(i, raw)
    \/ \E e \in Emails, pw \in Passwords : LoginSubmit(e, pw)
    \/ \E n \in Names, e \in Emails, pw \in Passwords : RegisterSubmit(n, e, pw)
    \/ \E p \in OpIds, raw \in AllRaws : AuthResponse(p, raw)
    \/ \E p \in OpIds, raw \in AllRaws : PageResponse(p, raw)
    \/ \E p \in OpIds, raw \in MeRaws : OpMeResponse(p, raw)
    \/ OpenInvite
    \/ \E e \in Emails : InviteInput(e)
    \/ SubmitInvite
    \/ \E i \in 1..MaxList, r \in {"", "r1"} : UpdateUserRole(i, r)
    \/ \E i \in 1..MaxList : SelectRole(i)
    \/ \E i \in 1..MaxList : SetAssignUserId(i)
    \/ SavePermissions
    \/ AssignRoleToUser
    \/ \E id \in 1..toastId : ToastExpire(id)
    \/ HideTimer

SpecProbing == Init /\ [][NextProbing]_vars

\* ------------------------------------------------------------ claims on the session
\* AuthProvider.value: isAuthenticated: Boolean(token)
isAuthenticated == token # NoToken

\* Nothing but the startup has touched the session: no login, register or
\* logout has been made (each of them ends with a toast).
Startup == toastId = 0 /\ \A p \in OpIds : ops[p].kind \notin SessionKinds

\* C7: the session starts initializing; started without a stored credential
\* it becomes anonymous (not initializing, no credential, no profile) and no
\* request is issued; started with a stored credential it is authenticated
\* from the start and stops initializing when the profile fetch ends, with a
\* profile or with none.
C7_SessionStartup ==
    /\ (eff.pc = "idle" => initializing)
    /\ (Startup /\ eff.pc # "idle" /\ storedToken = NoToken =>
            /\ ~initializing /\ ~isAuthenticated /\ user = JNull
            /\ eff.sent = <<>> /\ stale = 0
            /\ \A p \in OpIds : ops[p].pc = "free")
    /\ (Startup /\ storedToken # NoToken =>
            /\ isAuthenticated /\ token = storedToken
            /\ (eff.pc = "getme" => initializing)
            /\ (eff.pc = "done" => ~initializing /\ Shown(St) # "none"))

\* The startup with a stored credential ended with every profile candidate failed.
C7_Witness ==
    /\ Startup /\ storedToken # NoToken
    /\ eff.pc = "done" /\ Len(eff.sent) = Len(MeCandidates)
    /\ user = JNull /\ ~initializing /\ isAuthenticated

\* C8: once a login candidate has answered 2xx with a token T, no further
\* login candidate is issued, T is in the token store and in the session state,
\* the profile candidates are fetched with T, and login resolves with T and the
\* profile found, be it none.
C8_LoginWithToken ==
    \A p \in OpIds :
        LET o == ops[p]
            T == normalizeAuthResponse(o.okData)
        IN  o.kind = "login" /\ o.okAt # 0 =>
                /\ o.pc \in {"getme", "done"}
                /\ Len(o.sent) = o.okAt
                /\ storedToken = T.v /\ token = T.v /\ isAuthenticated
                /\ o.meSent # <<>>
                /\ \A i \in 1..Len(o.meSent) :
                        o.meSent[i].auth = T.v /\ o.meSent[i].path = MeCandidates[i]
                /\ (o.pc = "done" =>
                        /\ o.out = "ok"
                        /\ o.res = JObj([token |-> T, user |-> user])
                        /\ o.note.type = "success")

\* A login resolved on its second candidate although no profile was found.
C8_Witness ==
    \E p \in OpIds :
        /\ ops[p].kind = "login" /\ ops[p].pc = "done" /\ ops[p].out = "ok"
        /\ ops[p].okAt = 2
        /\ Len(ops[p].meSent) = Len(MeCandidates) /\ user = JNull
        /\ token = "t1" /\ storedToken = "t1"

\* C9: a login candidate that answers 2xx without a token counts as failed:
\* while no candidate has given a token the next one is issued after each
\* answer, and after the last one login throws, the credential is what it was
\* when login was called and no profile is fetched.
C9_TokenlessLoginFails ==
    \A p \in OpIds :
        LET o == ops[p]
        IN  o.kind = "login" /\ o.okAt = 0 =>
                /\ o.pc \in {"await", "done"}
                /\ o.failed = o.recv
                /\ (o.pc = "await" => Len(o.sent) = o.failed + 1)
                /\ (o.pc = "done" =>
                        /\ o.failed = Len(Candidates(o.kind, o.arg))
                        /\ o.out = "error" /\ o.thrown.thrown
                        /\ o.note.type = "error"
                        /\ token = o.cap /\ storedToken = o.cap
                        /\ o.meSent = <<>>)

\* Every login candidate answered, the last one 2xx without a token: login failed.
C9_Witness ==
    \E p \in OpIds :
        /\ ops[p].kind = "login" /\ ops[p].pc = "done" /\ ops[p].out = "error"
        /\ ops[p].recv = 3
        /\ ops[p].lastFail.message = TokenlessMessage
        /\ token = NoToken /\ storedToken = NoToken /\ user = JNull

\* ------------------------------------------------------------ claims on the probing handlers
ProbeKinds ==
    {"login", "register", "ProjectsPage.load", "UsersPage.loadUsers", "UsersPage.loadRoles",
     "RolesPage.loadRoles", "RolesPage.loadUsers", "UsersPage.submitInvite",
     "UsersPage.updateUserRole", "RolesPage.savePermissions", "RolesPage.assignRoleToUser"}

\* The loads that ignore their failure.
SilentKinds == {"UsersPage.loadRoles", "RolesPage.loadUsers"}

SameRoute(a, b) ==
    a.method = b.method /\ a.path = b.path /\ a.id = b.id /\ a.body = b.body

\* The handler holds the result of the candidate that did not fail.
HoldsResult(o) ==
    CASE o.kind \in SessionKinds -> o.jwt = normalizeAuthResponse(o.okData)
      [] o.kind \in {"RolesPage.savePermissions", "RolesPage.assignRoleToUser"} -> o.okFlag
      [] OTHER -> o.res = o.okData

\* C1: an invocation of a probing handler issues its candidates in the order
\* of its list, each at most once and the next only when the previous one has
\* been answered and failed; with the first candidate that does not fail it
\* stops, holding that candidate's result.
C1_OrderedFallback ==
    \A p \in OpIds :
        LET o == ops[p]
            c == Candidates(o.kind, o.arg)
        IN  o.kind \in ProbeKinds /\ o.pc # "free" =>
                /\ Len(o.sent) \in 1..Len(c)
                /\ \A i \in 1..Len(o.sent) : SameRoute(o.sent[i], c[i])
                /\ Len(o.sent) = o.recv + (IF o.pc = "await" THEN 1 ELSE 0)
                /\ (o.okAt = 0 =>
                        /\ o.failed = o.recv
                        /\ (o.pc # "await" => o.recv = Len(c)))
                /\ (o.okAt # 0 =>
                        /\ o.pc # "await"
                        /\ Len(o.sent) = o.okAt
                        /\ o.failed = o.okAt - 1
                        /\ HoldsResult(o))

\* An invite whose first candidate failed and whose second was answered 2xx:
\* the third was not issued.
C1_Witness ==
    \E p \in OpIds :
        /\ ops[p].kind = "UsersPage.submitInvite" /\ ops[p].pc = "done"
        /\ ops[p].okAt = 2 /\ ops[p].out = "ok"
        /\ Len(ops[p].sent) = 2

\* C2: when every candidate of a probing handler that reports its failure has
\* failed, the error thrown to the caller is the error of the last candidate,
\* and the error toast shows its message.
C2_LastErrorSurfaced ==
    \A p \in OpIds :
        LET o == ops[p]
        IN  /\ o.kind \in ProbeKinds \ SilentKinds
            /\ o.pc = "done" /\ o.okAt = 0
            =>  /\ o.out = "error"
                /\ o.thrown = o.lastFail
                /\ o.note.type = "error"
                /\ o.note.description = o.lastFail.message
                /\ toasts # <<>> /\ toasts[1] = o.note

\* Save permissions: both candidates failed, the last one with a status.
C2_Witness ==
    \E p \in OpIds :
        /\ ops[p].kind = "RolesPage.savePermissions" /\ ops[p].pc = "done"
        /\ ops[p].failed = 2 /\ ops[p].okAt = 0
        /\ ops[p].lastFail.status = 500
        /\ toasts # <<>> /\ toasts[1].description = "Request failed (500)"

\* ------------------------------------------------------------ claims on register and logout
\* Once a registration candidate has answered 2xx no further one is issued;
\* with a token T in the answer, T is stored and held by the session, which is
\* authenticated; without, register returns at once and fetches no profile.
C11_RegisterStops ==
    \A p \in OpIds :
        LET o == ops[p]
            T == normalizeAuthResponse(o.okData)
        IN  o.kind = "register" /\ o.okAt # 0 =>
                /\ Len(o.sent) = o.okAt
                /\ o.jwt = T
                /\ (Truthy(T) =>
                        /\ o.pc \in {"getme", "done"}
                        /\ storedToken = T.v /\ token = T.v /\ isAuthenticated
                        /\ o.meSent # <<>>
                        /\ \A i \in 1..Len(o.meSent) : o.meSent[i].auth = T.v)
                /\ (~Truthy(T) => o.pc = "done" /\ o.meSent = <<>>)
                /\ (o.pc = "done" =>
                        /\ o.out = "ok" /\ o.note.type = "success"
                        /\ o.res = JObj([token |-> T, user |-> JNull]))

\* A step in which register receives an answer and has found no token (the
\* candidate failed, or answered 2xx without a token) leaves the stored
\* credential, the credential of the session and the profile as they were.
C11_TokenlessFrame ==
    \A p \in OpIds :
        /\ ops[p].kind = "register" /\ ops[p].pc = "await"
        /\ ops'[p].kind = "register" /\ ops'[p].recv = ops[p].recv + 1
        /\ ops'[p].jwt = JNull
        => UNCHANGED <<storedToken, token, user>>

\* C11: register stops at the first registration candidate that does not
\* fail; a token in its answer is persisted and authenticates the session; an
\* answer without a token makes register succeed with the stored credential,
\* the session's credential and the profile left as they were.
C11_Register == []C11_RegisterStops /\ [][C11_TokenlessFrame]_vars

\* A session with credential and profile; register succeeded on its second
\* candidate, answered without a token: credential and profile are still there.
C11_Witness ==
    \E p \in OpIds :
        /\ ops[p].kind = "register" /\ ops[p].pc = "done" /\ ops[p].out = "ok"
        /\ ops[p].okAt = 2 /\ ops[p].jwt = JNull
        /\ token = "t1" /\ storedToken = "t1" /\ user # JNull

\* A step in which a Logout button was pressed (its toast appears).
LogoutStep ==
    /\ toastId' = toastId + 1
    /\ toasts' # <<>> /\ toasts'[1].id = toastId' /\ toasts'[1].title = "Logged out"

\* The requests issued are those that had been issued.
NoRequestIssued ==
    /\ \A p \in OpIds :
            \/ ops'[p].pc = "free"
            \/ ops'[p].sent = ops[p].sent /\ ops'[p].meSent = ops[p].meSent
    /\ eff'.sent = <<>>
    /\ stale' = stale

\* C12: logout, in whatever state the session is, removes the stored
\* credential, leaves the session without credential and without profile in
\* the same turn, and issues no request.
C12_LogoutSynchronous ==
    [][LogoutStep =>
            /\ storedToken' = NoToken /\ token' = NoToken /\ user' = JNull
            /\ ~isAuthenticated'
            /\ NoRequestIssued]_vars

\* Logged out of a session that had a credential, while a request of the page
\* left was still awaited.
C12_Witness ==
    /\ toasts # <<>> /\ toasts[1].title = "Logged out"
    /\ storedToken = NoToken /\ token = NoToken /\ user = JNull
    /\ route = "/login"
    /\ \E p \in OpIds : ops[p].pc = "await" /\ ops[p].cap # NoToken

\* ------------------------------------------------------------ the credential
\* What a backend answers to a request whose credential it does not accept.
RejectStatuses == {401, 403}
Rejection(status) == Http(status, JObj([detail |-> JStr("Not authenticated")]))

\* A request of a page is answered 401 or 403.
Rejected(p, status) ==
    /\ ops[p].pc = "await"
    /\ ops[p].kind \notin SessionKinds
    /\ LET raw == Rejection(status)
       IN  Commit(render(onResponse(received(St, p, raw), p, requestResult(raw))))

\* The handlers that may not touch the credential, with the backend rejecting
\* some of the pages' requests.
NextCredential ==
    \/ NextProbing
    \/ \E p \in OpIds, status \in RejectStatuses : Rejected(p, status)

SpecCredential == Init /\ [][NextCredential]_vars

\* A session with a credential on one of its pages: the requests of the page
\* are answered or rejected, the user logs out.
InitRotation ==
    /\ Init
    /\ storedToken # NoToken
    /\ route \in ProtectedRoutes

NextRotation ==
    \/ EffectRun
    \/ \E raw \in MeRaws : EffectMeResponse(raw)
    \/ \E d \in LogoutToasts : LogoutClick(d)
    \/ \E p \in OpIds, raw \in AllRaws : PageResponse(p, raw)
    \/ \E p \in OpIds, status \in RejectStatuses : Rejected(p, status)
    \/ \E id \in 1..toastId : ToastExpire(id)
    \/ HideTimer

SpecRotation == InitRotation /\ [][NextRotation]_vars

\* The credential, stored or of the session, is not what it was.
CredentialChanged == storedToken' # storedToken \/ token' # token

\* A step in which a candidate of login or of register (kind) is answered with
\* a token, which becomes the credential.
TokenStep(kind) ==
    \E p \in OpIds :
        /\ ops[p].kind = kind /\ ops[p].pc = "await" /\ ops[p].okAt = 0
        /\ ops'[p].kind = kind /\ ops'[p].okAt # 0
        /\ Truthy(normalizeAuthResponse(ops'[p].okData))
        /\ token' = normalizeAuthResponse(ops'[p].okData).v
        /\ storedToken' = token'

\* C13: the credential changes only in a step where a login candidate or a
\* register candidate yields a token, or in a logout; whatever else happens
\* (failed logins, failed or tokenless registrations, profile fetches, the
\* operations of the pages, their requests answered 401 or 403 included)
\* leaves it alone; the token store and the session hold the same credential.
C13_CredentialChanges ==
    /\ [](token = storedToken)
    /\ [][CredentialChanged =>
            TokenStep("login") \/ TokenStep("register") \/ LogoutStep]_vars

\* A request of a page was rejected with 401, every candidate failed, and the
\* credential is still there.
C13_Witness ==
    \E p \in OpIds :
        /\ ops[p].kind \notin SessionKinds /\ ops[p].pc = "done"
        /\ ops[p].lastFail.status = 401 /\ ops[p].okAt = 0
        /\ token = "t1" /\ storedToken = "t1"

\* C14: a request issued by a probing sequence in progress carries the
\* credential the session holds at the moment the request is issued.
C14_LatestCredential ==
    [][\A p \in OpIds :
            /\ ops[p].pc = "await" /\ ops'[p].pc = "await"
            /\ Len(ops'[p].sent) = Len(ops[p].sent) + 1
            => ops'[p].sent[Len(ops'[p].sent)].auth = token']_vars

\* C16: safeJsonParse throws nothing: of a text that is JSON it gives the
\* parsed value, of a text that is not JSON the text itself, of the empty
\* text null.
C16_ParseNeverThrows ==
    (pureDone /\ pureFn = "safeJsonParse") =>
        LET text == pureIn.v
        IN  /\ pureOut.t # "thrown"
            /\ (text = "" => pureOut = JNull)
            /\ (text \in DOMAIN JsonTexts => pureOut = JsonTexts[text])
            /\ (text # "" /\ text \notin DOMAIN JsonTexts => pureOut = JStr(text))

\* A truncated JSON text comes back as it is.
C16_Witness ==
    /\ pureDone /\ pureFn = "safeJsonParse"
    /\ pureIn = Chars("{\"detail\":")
    /\ pureOut = JStr("{\"detail\":")

\* The field of the body the message is taken from, as the claim orders them.
MessageField(data) ==
    IF Truthy(Get(data, "detail")) THEN Get(data, "detail")
    ELSE IF Truthy(Get(data, "message")) THEN Get(data, "message")
    ELSE IF Truthy(Get(data, "error")) THEN Get(data, "error")
    ELSE Undef

\* C15: request fails exactly for a status outside 200..299; the error has
\* the status and the body, parsed or raw, and its message is the detail field
\* of the body, else its message field, else its error field, else the raw
\* text of a body that was not JSON, else "Request failed (status)"; for a
\* status in 200..299 the parsed body is returned.
C15_ErrorClassification ==
    (pureDone /\ pureFn = "request") =>
        LET status == pureIn.status
            text == pureIn.text
            data == safeJsonParse(text)
            field == MessageField(data)
            notJson == text # "" /\ text \notin DOMAIN JsonTexts
        IN  /\ pureOut.ok <=> (status >= 200 /\ status <= 299)
            /\ (pureOut.ok => pureOut.data = data /\ ~pureOut.err.thrown)
            /\ (~pureOut.ok =>
                    /\ pureOut.err.thrown
                    /\ pureOut.err.status = status
                    /\ pureOut.err.data = data
                    /\ IF field # Undef
                       THEN field.t = "string" /\ pureOut.err.message = field.v
                       ELSE IF notJson
                       THEN pureOut.err.message = text
                       ELSE pureOut.err.message = "Request failed (" \o ToString(status) \o ")")

\* C17: normalizeList gives an array back as it is, for an object the array in
\* its items field, otherwise the array in its data field, and the empty list
\* for anything else; the copies of the three pages give the same.
C17_NormalizeList ==
    (pureDone /\ pureFn = "normalizeList") =>
        LET expected ==
                IF pureIn.t = "array" THEN pureIn.v
                ELSE IF pureIn.t = "object" /\ "items" \in DOMAIN pureIn.v
                        /\ pureIn.v["items"].t = "array"
                THEN pureIn.v["items"].v
                ELSE IF pureIn.t = "object" /\ "data" \in DOMAIN pureIn.v
                        /\ pureIn.v["data"].t = "array"
                THEN pureIn.v["data"].v
                ELSE <<>>
        IN  /\ pureOut.projects = expected
            /\ pureOut.users = expected
            /\ pureOut.roles = expected

\* items is no array, data is one: the data array is the list.
C17_Witness ==
    /\ pureDone /\ pureFn = "normalizeList"
    /\ pureIn = JObj([items |-> JStr("x"), data |-> JArr(<<JStr("a")>>)])
    /\ pureOut.projects = <<JStr("a")>> /\ pureOut.users = <<JStr("a")>>
    /\ pureOut.roles = <<JStr("a")>>

\* ------------------------------------------------------------ the writes
\* A user with a stored credential on the projects page or on the users page:
\* the lists load, the user creates, edits, archives, deletes and invites.
InitWrites == Init /\ storedToken # NoToken /\ route \in {"/projects", "/users"}

NextWrites ==
    \/ EffectRun
    \/ \E raw \in MeRaws : EffectMeResponse(raw)
    \/ \E p \in OpIds, raw \in AllRaws : PageResponse(p, raw)
    \/ StartCreate
    \/ \E i \in 1..MaxList : StartEdit(i)
    \/ \E n \in ProjectNames : NameInput(n)
    \/ Save
    \/ \E i \in 1..MaxList : ArchiveOrDelete(i)
    \/ OpenInvite
    \/ \E e \in Emails : InviteInput(e)
    \/ SubmitInvite
    \/ \E id \in 1..toastId : ToastExpire(id)
    \/ HideTimer

SpecWrites == InitWrites /\ [][NextWrites]_vars

\* ------------------------------------------------------------ claims on the writes
\* The handler s -> h(s) was blocked by validation: the named field has an
\* error, no request was issued and no toast was pushed.
Blocked(s, field) ==
    /\ field \in DOMAIN s.pg.errors
    /\ s.ops = St.ops
    /\ s.toasts = toasts /\ s.toastId = toastId

\* The handler issued the first request of a new invocation of that kind.
Issued(s, kind) ==
    /\ s.pg.errors = NoErrors
    /\ \E p \in OpIds :
          /\ St.ops[p].pc = "free"
          /\ s.ops[p].pc = "await" /\ s.ops[p].kind = kind /\ Len(s.ops[p].sent) = 1

HasFreeOp == \E p \in OpIds : St.ops[p].pc = "free"

\* Save pressed in this state, with the form in create mode.
CanSaveNew == pg.page = "/projects" /\ pg.mode = "create" /\ HasFreeOp

CanSendInvite == pg.page = "/users" /\ pg.inviteOpen /\ HasFreeOp

\* C18: saving a project whose name, once trimmed, has fewer than 2 characters
\* ("", "Q", "Q ") attaches an error to the name, issues no request and shows
\* no notification, and so does sending an invite whose email is empty or
\* malformed; a name of at least 2 characters once trimmed ("Q2") and a
\* well-formed email pass and the write is issued.
C18_ValidationBlocks ==
    /\ CanSaveNew =>
          /\ Len(Trim(pg.form.name)) < 2 => Blocked(save(St), "name")
          /\ Len(Trim(pg.form.name)) >= 2 => Issued(save(St), "ProjectsPage.save")
          /\ pg.form.name \in {<<>>, <<"Q">>} => Blocked(save(St), "name")
          /\ pg.form.name = <<"Q", "2">> => Issued(save(St), "ProjectsPage.save")
    /\ CanSendInvite =>
          /\ pg.inviteForm.email \in {<<>>, <<"a", "@", "b">>} =>
                Blocked(submitInvite(St), "email")
          /\ pg.inviteForm.email = <<"a", "@", "b", ".", "c">> =>
                Issued(submitInvite(St), "UsersPage.submitInvite")
    /\ \A p \in OpIds :
          ops[p].kind = "ProjectsPage.save" =>
             Len(Trim(Field(Field(ops[p].arg, "body"), "name").v)) >= 2

\* A save was blocked on the name "Q " and nothing was ever written.
C18_Witness ==
    /\ pg.page = "/projects" /\ pg.mode = "create"
    /\ pg.form.name = <<"Q", " ">>
    /\ "name" \in DOMAIN pg.errors
    /\ toastId = 0
    /\ \A p \in OpIds : ops[p].kind # "ProjectsPage.save"

\* C18 as stated: every project name of length 2 passes validation.
C18_LengthTwoPasses ==
    CanSaveNew /\ Len(pg.form.name) = 2 => Issued(save(St), "ProjectsPage.save")

ArchiveOps == {p \in OpIds : ops[p].kind = "ProjectsPage.archiveOrDelete"}

\* The invocation p of archiveOrDelete ends in this step, its page still shown.
ArchiveEnds(p) ==
    /\ p \in ArchiveOps
    /\ ops[p].pc = "await" /\ ops[p].live
    /\ ops'[p].pc = "done"

\* This step shows one toast, of that type.
OneToast(type) ==
    /\ toastId' = toastId + 1
    /\ toasts' = <<toasts'[1]>> \o toasts
    /\ toasts'[1].id = toastId' /\ toasts'[1].type = type

\* The requests of archiveOrDelete: PATCH /projects/p.id with the archived
\* status; DELETE /projects/p.id after it, if and only if the PATCH failed.
ArchiveRequests(o) ==
    /\ Len(o.sent) \in {1, 2}
    /\ o.sent[1].method = "PATCH" /\ o.sent[1].path = "/projects/:id"
    /\ o.sent[1].id = Field(o.arg, "id")
    /\ o.sent[1].body = JObj([status |-> JStr("archived")])
    /\ Len(o.sent) = 2 <=> o.failed >= 1
    /\ Len(o.sent) = 2 =>
          /\ o.sent[2].method = "DELETE" /\ o.sent[2].path = "/projects/:id"
          /\ o.sent[2].id = Field(o.arg, "id")
    /\ o.okAt = 1 => Len(o.sent) = 1

\* The step that ends archiveOrDelete for project id: after a PATCH that
\* succeeded the entries with that id have status archived and the list is
\* otherwise the same, with one success toast; after a DELETE that succeeded
\* the entries with that id are gone; after both failed the list is the same
\* and one error toast is shown.
ArchiveOutcome(p) ==
    LET o == ops'[p]
        id == Field(o.arg, "id")
        list == pg.projects
    IN  /\ o.okAt = 1 =>
              /\ OneToast("success")
              /\ Len(pg'.projects) = Len(list)
              /\ \A i \in 1..Len(list) :
                    IF Get(list[i], "id") = id
                    THEN /\ Get(pg'.projects[i], "status") = JStr("archived")
                         /\ Get(pg'.projects[i], "id") = id
                    ELSE pg'.projects[i] = list[i]
        /\ o.okAt = 2 =>
              /\ OneToast("success")
              /\ pg'.projects = SelectSeq(list, LAMBDA x : Get(x, "id") # id)
        /\ o.okAt = 0 =>
              /\ OneToast("error")
              /\ o.recv = 2 /\ o.failed = 2
              /\ toasts'[1].description = o.lastFail.message
              /\ pg'.projects = list

\* C19: archiving project p tries PATCH /projects/p.id with {status:
\* "archived"} first; if it succeeds DELETE is never issued, p stays in the
\* list with status archived and one success notification is shown; if it
\* fails DELETE /projects/p.id is issued next; if DELETE succeeds p is removed
\* from the list; if DELETE also fails exactly one error notification is
\* shown and the list is unchanged.
C19_ArchiveThenDelete ==
    /\ [](\A p \in ArchiveOps : ArchiveRequests(ops[p]))
    /\ [][\A p \in OpIds : ArchiveEnds(p) => ArchiveOutcome(p)]_vars

\* An archive has ended with the PATCH and the DELETE both failed, the
\* project still first in the list, its error toast shown.
C19_Witness ==
    \E p \in ArchiveOps :
        /\ ops[p].pc = "done" /\ ops[p].failed = 2
        /\ pg.page = "/projects" /\ pg.projects # <<>>
        /\ Get(pg.projects[1], "id") = Field(ops[p].arg, "id")
        /\ toasts # <<>> /\ toasts[1].title = "Action failed"

\* An archive has ended with the PATCH succeeded, another with the DELETE
\* succeeded.
C19_Archived ==
    \E p \in ArchiveOps :
        /\ ops[p].pc = "done" /\ ops[p].okAt = 1
        /\ pg.page = "/projects" /\ pg.projects # <<>>
        /\ Get(pg.projects[1], "status") = JStr("archived")

C19_Deleted ==
    \E p \in ArchiveOps :
        /\ ops[p].pc = "done" /\ ops[p].okAt = 2
        /\ pg.page = "/projects" /\ pg.projects = <<>>

\* The writes that pass through validation or need none.
WriteKinds ==
    {"ProjectsPage.save", "UsersPage.submitInvite", "UsersPage.updateUserRole",
     "RolesPage.savePermissions", "RolesPage.assignRoleToUser"}

\* The invocation p of a write ends in this step, its page still shown.
WriteEnds(p) ==
    /\ ops[p].kind \in WriteKinds
    /\ ops[p].pc = "await" /\ ops[p].live
    /\ ops'[p].pc = "done"

\* The list of the page took the entity x the write returned: first in the
\* list for a create, in the place of the entries with the id written to for
\* an update. Nothing is asked when no entity came back.
Merged(o, x) ==
    CASE ~NotNullish(x) -> TRUE
      [] o.kind = "ProjectsPage.save" /\ Field(o.arg, "mode") = JStr("create") ->
            pg'.projects = <<x>> \o pg.projects
      [] o.kind = "ProjectsPage.save" ->
            pg'.projects = ReplaceById(pg.projects, Field(o.arg, "id"), x)
      [] o.kind = "UsersPage.submitInvite" ->
            pg'.users = <<x>> \o pg.users
      [] o.kind = "UsersPage.updateUserRole" ->
            pg'.users = ReplaceById(pg.users, Field(o.arg, "userId"), x)
      [] OTHER -> TRUE

ListsUnchanged(o) ==
    CASE o.kind = "ProjectsPage.save" -> pg'.projects = pg.projects
      [] o.kind \in {"UsersPage.submitInvite", "UsersPage.updateUserRole"} ->
            pg'.users = pg.users
      [] OTHER -> TRUE

\* C20: a write that passed validation ends, if some candidate answered 2xx,
\* with exactly one success notification and the returned entity merged into
\* the list (first for a create, in the place of the entry with the same id
\* for an update); if every candidate failed, with exactly one error
\* notification carrying the failure message and the list unchanged.
C20_WriteOutcome ==
    [][\A p \in OpIds :
          WriteEnds(p) =>
             LET o == ops'[p]
             IN  IF o.okAt # 0
                 THEN OneToast("success") /\ Merged(o, o.okData)
                 ELSE /\ OneToast("error")
                      /\ toasts'[1].description = o.lastFail.message
                      /\ ListsUnchanged(o)]_vars

\* ------------------------------------------------------------ the toasts
\* The hub alone, on the login page: components push toasts, with a timeoutMs
\* or without, the user closes them, their timers fire.
MaxPushed == 4     \* toasts pushed in one behaviour
MaxShown == 3      \* toasts in the list at the same time

ToastInputs ==
    {[type |-> ty, title |-> "", description |-> ""] : ty \in {"", "error"}}
    \cup {[type |-> "", title |-> "", description |-> "", timeoutMs |-> ms] : ms \in {0, 1000}}

InitToasts == Init /\ storedToken = NoToken /\ route = "/login"

PushToast(t) ==
    /\ toastId < MaxPushed /\ Len(toasts) < MaxShown
    /\ LET h == pushToastHub(Hub(St), t)
       IN  Commit([St EXCEPT !.toasts = h.toasts, !.toastId = h.toastId,
                             !.toastTimers = h.timers])

NextToasts ==
    \/ \E t \in ToastInputs : PushToast(t)
    \/ \E id \in 1..toastId : ToastExpire(id)
    \/ \E id \in 1..toastId : ToastDismiss(id)

SpecToasts == InitToasts /\ [][NextToasts]_vars

\* A timer that is pending fires.
SpecToastsFair == SpecToasts /\ \A id \in 1..MaxPushed : WF_vars(ToastExpire(id))

\* ------------------------------------------------------------ claims on the toasts
ToastIds(list) == {list[i].id : i \in 1..Len(list)}

\* The toasts in the list have pairwise distinct ids, none beyond the counter.
DistinctIds ==
    /\ \A i, j \in 1..Len(toasts) : i # j => toasts[i].id # toasts[j].id
    /\ \A i \in 1..Len(toasts) : toasts[i].id \in 1..toastId

\* The counter never goes back, and a toast that enters the list has an id
\* above the counter as it was, so above every id given before.
FreshIds ==
    /\ toastId' >= toastId
    /\ \A id \in ToastIds(toasts') \ ToastIds(toasts) : id > toastId /\ id = toastId'

\* C21: toast ids are unique for the lifetime of the process and increase in
\* creation order: whatever toasts were pushed, dismissed and expired, a new
\* toast has an id greater than every id given before (so no id is given
\* twice, nor reused after its toast was removed), and the toasts in the list
\* have pairwise distinct ids.
C21_ToastIds == []DistinctIds /\ [][FreshIds]_vars

\* Toasts 1 and 2 were removed and two later toasts are in the list.
C21_Witness ==
    /\ Len(toasts) = 2
    /\ toasts[1].id = 4 /\ toasts[2].id = 3

InList(id) == id \in ToastIds(toasts)

\* The toast id is in the list and was given a timeoutMs that starts a timer.
Timed(id) == \E i \in 1..Len(toasts) : toasts[i].id = id /\ toasts[i].timeoutMs # 0

\* A step that takes toasts from the list takes exactly one, and leaves the
\* others in their places.
ExactRemoval ==
    ToastIds(toasts) \ ToastIds(toasts') # {} =>
        \E id \in ToastIds(toasts) : toasts' = SelectSeq(toasts, LAMBDA x : x.id # id)

\* The timer of a toast that is no longer in the list fires: nothing changes
\* in the list.
LateExpiry ==
    \A id \in toastTimers \ ToastIds(toasts) :
        id \notin toastTimers' => toasts' = toasts

\* A toast in the list has a timer pending, unless its timeoutMs is 0.
TimerPending ==
    \A i \in 1..Len(toasts) : toasts[i].id \in toastTimers <=> toasts[i].timeoutMs # 0

ProjectStatuses == {JStr("active"), JStr("archived")}

\* C23: every project in the list of the projects page has the status active
\* or archived, whatever the backend returned to the loads, creates, updates
\* and archives made.
C23_ProjectStatus ==
    pg.page = "/projects" =>
        \A i \in 1..Len(pg.projects) : Get(pg.projects[i], "status") \in ProjectStatuses

\* ------------------------------------------------------------ claims on unmounted views
\* The invocation p, made by a page instance that is no longer mounted,
\* receives an answer in this step.
StaleAnswer(p) ==
    /\ Running(ops[p]) /\ ~ops[p].live
    /\ ops'[p].recv > ops[p].recv

\* C24: the answer to a request of a view that was unmounted before the
\* request settled causes no state update: neither the page shown, nor the
\* toasts, nor the session change in the step that receives it.
C24_StaleResultGuard ==
    [][\A p \in OpIds :
          StaleAnswer(p) /\ ops[p].kind \notin SessionKinds =>
             UNCHANGED <<pg, route, toasts, toastId, toastTimers,
                         token, storedToken, user, initializing>>]_vars

\* ------------------------------------------------------------ claims on the loads
\* The list a view is made for, and the list that fills a select of it.
PrimaryLoads == {"ProjectsPage.load", "UsersPage.loadUsers", "RolesPage.loadRoles"}

\* The load p ends in this step, every candidate having failed.
LoadFails(p) ==
    /\ ops[p].pc = "await" /\ ops[p].live
    /\ ops'[p].pc = "done" /\ ops'[p].okAt = 0

ListOf(kind, page) ==
    CASE kind = "ProjectsPage.load" -> page.projects
      [] kind \in {"UsersPage.loadUsers", "RolesPage.loadUsers"} -> page.users
      [] OTHER -> page.roles

\* C25: when every candidate of the load of a secondary list (roles on the
\* users page, users on the roles page) has failed, nothing is thrown, no
\* toast is shown and the list stays as it was; when every candidate of the
\* load of a view's primary list has failed, exactly one error toast is shown.
C25_SecondaryLoadSilent ==
    [][\A p \in OpIds :
          LoadFails(p) =>
             /\ ops[p].kind \in SilentKinds =>
                   /\ ops'[p].out = "silent" /\ ~ops'[p].thrown.thrown
                   /\ UNCHANGED <<toasts, toastId, toastTimers>>
                   /\ ListOf(ops[p].kind, pg') = ListOf(ops[p].kind, pg)
             /\ ops[p].kind \in PrimaryLoads =>
                   /\ ops'[p].out = "error" /\ ops'[p].thrown.thrown
                   /\ OneToast("error")
                   /\ ListOf(ops[p].kind, pg') = ListOf(ops[p].kind, pg)]_vars

\* On the users page the load of the roles has failed on both routes and no
\* toast was ever shown, the users loaded.
C25_Witness ==
    /\ pg.page = "/users" /\ pg.users # <<>> /\ pg.roles = <<>>
    /\ toastId = 0
    /\ \E p \in OpIds :
          /\ ops[p].kind = "UsersPage.loadRoles" /\ ops[p].pc = "done"
          /\ ops[p].failed = 2 /\ ops[p].out = "silent"

\* ------------------------------------------------------------ claims on the routes of the session
\* The request is a POST to path with that body.
IsPost(req, path, body) ==
    req.method = "POST" /\ req.path = path /\ req.id = Undef /\ req.body = body

\* C26: login issues POST /auth/login with {email, password}, then POST /login
\* with {email, password}, then POST /token with {username: email, password},
\* in this order and nothing else, each route only after every earlier one
\* has failed.
C26_LoginRoutes ==
    \A p \in OpIds :
        LET o == ops[p]
            email == Field(o.arg, "email")
            password == Field(o.arg, "password")
            n == Len(o.sent)
        IN  o.kind = "login" =>
               /\ n \in 1..3
               /\ IsPost(o.sent[1], "/auth/login",
                         JObj([email |-> email, password |-> password]))
               /\ n >= 2 => IsPost(o.sent[2], "/login",
                                   JObj([email |-> email, password |-> password]))
               /\ n = 3 => IsPost(o.sent[3], "/token",
                                  JObj([username |-> email, password |-> password]))
               /\ o.failed >= n - 1
               /\ o.okAt # 0 => o.okAt = n

\* A login reached POST /token after the two other routes failed, and that
\* one gave the token.
C26_Witness ==
    \E p \in OpIds :
        /\ ops[p].kind = "login" /\ Len(ops[p].sent) = 3
        /\ ops[p].failed = 2 /\ ops[p].okAt = 3

\* ------------------------------------------------------------ claims on the profile fetch
\* The candidates whose answer is a 2xx; those whose answer is a 2xx with a
\* body (a value that is not falsy).
Answered2xx(answers) == {i \in DOMAIN answers : requestResult(answers[i]).ok}

AnsweredProfile(answers) ==
    {i \in DOMAIN answers :
        requestResult(answers[i]).ok /\ Truthy(requestResult(answers[i]).data)}

MeRoutes == <<"/auth/me", "/me", "/users/me", "/api/me">>

\* C27: the profile fetch requests /auth/me, /me, /users/me, /api/me in that
\* order and stops at the first candidate that answers 2xx with a body,
\* requesting no later one; a candidate that answers 2xx without a body is
\* passed over like one that failed. It never throws, and returns no profile
\* only when every candidate failed or answered without a body.
C27_ProfileFetch ==
    (pureDone /\ pureFn = "bestEffortGetMe") =>
        LET hits == AnsweredProfile(pureIn)
            n == Len(pureOut.paths)
        IN  /\ pureOut.paths = SubSeq(MeRoutes, 1, n)
            /\ IF hits = {}
               THEN n = 4 /\ pureOut.me = JNull
               ELSE /\ n = Min(hits)
                    /\ pureOut.me = requestResult(pureIn[n]).data

\* /auth/me failed, /me answered 200 without a body, /users/me gave the profile.
C27_Witness ==
    /\ pureDone /\ pureFn = "bestEffortGetMe"
    /\ pureIn[1] = NetFailure /\ pureIn[2] = Http(200, JNull)
    /\ pureOut.paths = <<"/auth/me", "/me", "/users/me">>
    /\ pureOut.me = JObj([id |-> JStr("u1")])

\* C27 as stated: the fetch stops at the first candidate that answers 2xx, and
\* returns no profile only when every candidate failed.
C27_StopsAtFirst2xx ==
    (pureDone /\ pureFn = "bestEffortGetMe") =>
        LET oks == Answered2xx(pureIn)
            n == Len(pureOut.paths)
        IN  /\ pureOut.paths = SubSeq(MeRoutes, 1, n)
            /\ oks # {} => n = Min(oks)
            /\ pureOut.me = JNull => oks = {}

\* ------------------------------------------------------------ claims on the initialization
\* The session with one user who gives well-formed credentials, and a
\* backend that does not answer or answers with a token, with a profile.
InitializingRaws ==
    {NetFailure, Http(200, JObj([token |-> JStr("t2")])), Http(200, JObj([jwt |-> JStr("t2")]))}

InitializingMeRaws == {NetFailure, Http(200, Profile)}

InitInitializing == Init /\ route \in {"/login", "/register"}

NextInitializing ==
    \/ EffectRun
    \/ \E raw \in InitializingMeRaws : EffectMeResponse(raw)
    \/ \E i \in 1..Len(MeCandidates), raw \in InitializingMeRaws : StaleMeResponse(i, raw)
    \/ LoginSubmit(<<"a", "@", "b", ".", "c">>, Rep("x", 8))
    \/ RegisterSubmit(<<"A", "l">>, <<"a", "@", "b", ".", "c">>, Rep("x", 8))
    \/ LogoutClick("")
    \/ \E p \in OpIds, raw \in InitializingRaws : AuthResponse(p, raw)
    \/ \E p \in OpIds, raw \in InitializingMeRaws : OpMeResponse(p, raw)
    \/ \E id \in 1..toastId : ToastExpire(id)

\* The effect runs after the first render, and every request of its profile
\* fetch is answered: weak fairness of EffectRun and of EffectMeResponse, the
\* latter written out with the condition that enables it (a request of the run
\* is awaited).
MeAwaited == eff.pc = "getme"

MeAnswered == \E raw \in InitializingMeRaws : EffectMeResponse(raw)

SpecInitializing ==
    /\ InitInitializing /\ [][NextInitializing]_vars
    /\ WF_vars(EffectRun)
    /\ ([]<>(~MeAwaited) \/ []<><<MeAnswered>>_vars)

\* initializing, once false, is false after every step that keeps the credential.
StaysInitialized == (~initializing /\ token' = token) => ~initializing'

\* C28: if every request issued is answered, the session leaves the
\* initializing state again and again: after the startup and after every
\* login, register and logout (which restart the effect and cancel its
\* previous run) initializing becomes false, and it stays false as long as the
\* credential does not change.
C28_InitializingEnds == []<>(~initializing) /\ [][StaysInitialized]_vars

\* A login replaced the credential while the startup's profile fetch was in
\* flight; the fetch of the new run has ended and the session is initialized.
C28_Witness ==
    /\ ~initializing /\ token = "t2" /\ eff.pc = "done" /\ eff.tok = "t2"
    /\ stale > 0

\* The session with the history of the browser: one user on the login page
\* who gives well-formed credentials, goes to the projects page (a page
\* visited before) and logs out there.
NextHistory ==
    \/ EffectRun
    \/ \E raw \in InitializingMeRaws : EffectMeResponse(raw)
    \/ \E i \in 1..Len(MeCandidates), raw \in InitializingMeRaws : StaleMeResponse(i, raw)
    \/ LoginSubmit(<<"a", "@", "b", ".", "c">>, Rep("x", 8))
    \/ LogoutClick("")
    \/ Navigate("/projects")
    \/ \E p \in OpIds, raw \in InitializingRaws : AuthResponse(p, raw)
    \/ \E p \in OpIds, raw \in InitializingMeRaws : OpMeResponse(p, raw)
    \/ \E id \in 1..toastId : ToastExpire(id)

InitHistory == Init /\ route = "/login"

SpecHistory == InitHistory /\ [][NextHistory]_vars

\* ------------------------------------------------------------ claims on the session under logout
\* C29: the session never holds a profile without a credential: whatever
\* logins, registrations and logouts were made and however their profile
\* fetches ended, user is null whenever token is null.
C29_ProfileImpliesCredential == user # JNull => token # NoToken

\* The login or register p was started while the session had a credential,
\* the session is anonymous now (a logout came in between), and a candidate
\* of p is answered in this step.
LateAuthAnswer(p) ==
    /\ ops[p].kind \in SessionKinds /\ ops[p].pc = "await"
    /\ ops[p].cap # NoToken
    /\ token = NoToken /\ storedToken = NoToken
    /\ ops'[p].recv > ops[p].recv

\* C30: after a logout the session stays anonymous until login or register
\* is called again: the answer to a login or register that was started before
\* the logout stores no credential and does not authenticate the session.
C30_AnonymousAfterLogout ==
    [][\A p \in OpIds :
          LateAuthAnswer(p) => token' = NoToken /\ storedToken' = NoToken]_vars

\* ------------------------------------------------------------ claims on the profile after login
\* One user who starts anonymous on the login page, logs in and logs out.
InitLogin == Init /\ storedToken = NoToken /\ route = "/login"

NextLogin ==
    \/ EffectRun
    \/ \E raw \in MeRaws : EffectMeResponse(raw)
    \/ \E e \in Emails, pw \in Passwords : LoginSubmit(e, pw)
    \/ \E d \in LogoutToasts : LogoutClick(d)
    \/ \E p \in OpIds, raw \in AllRaws : AuthResponse(p, raw)
    \/ \E p \in OpIds, raw \in MeRaws : OpMeResponse(p, raw)
    \/ \E id \in 1..toastId : ToastExpire(id)

SpecLogin == InitLogin /\ [][NextLogin]_vars

\* Login p has its token and is fetching the profile.
LoginFetching(p) == ops[p].kind = "login" /\ ops[p].pc = "getme"

\* While login fetches the profile, the effect does not fetch it for the same token.
OneProfileFetch ==
    \A p \in OpIds :
        LoginFetching(p) => ~(eff.pc = "getme" /\ eff.tok = ops[p].jwt.v)

\* The profile fetch of the effect ends in this step.
EffectFetchEnds == eff.pc = "getme" /\ eff'.pc = "done"

\* The session started anonymous, so a profile held while the effect is still
\* fetching is the one login resolved with: the end of the effect's fetch
\* leaves it as it is.
ProfileKept == (EffectFetchEnds /\ user # JNull) => user' = user

\* C31: a successful login has the profile fetched by one probing sequence
\* only, and the profile login resolved with stays the session's profile: the
\* effect run again for the new credential does not replace it with an absent
\* one.
C31_LoginProfile == []OneProfileFetch /\ [][ProfileKept]_vars

\* The two parts of C31, one by one.
C31_OneFetch == []OneProfileFetch
C31_Kept == [][ProfileKept]_vars

\* ------------------------------------------------------------ claims on the Roles view
\* A user with a stored credential on the Roles view of a backend with one or
\* two roles: the profile is fetched, the lists load, the user selects roles,
\* one while the permissions of another are being fetched, and saves. A
\* request fails for want of an answer.
RolesRaws ==
    UNION {Raws(k) : k \in {"RolesPage.loadRoles", "RolesPage.loadUsers",
                            "RolesPage.selectRole", "RolesPage.savePermissions"}}
        \ {Http(500, JNull)}

InitRoles == Init /\ storedToken # NoToken /\ route = "/roles"

NextRoles ==
    \/ EffectRun
    \/ EffectMeResponse(Http(200, Profile))
    \/ \E p \in OpIds, raw \in RolesRaws : PageResponse(p, raw)
    \/ \E i \in 1..MaxList : SelectRole(i)
    \/ \E i \in 1..MaxList : ReselectRole(i)
    \/ SavePermissions
    \/ \E id \in 1..toastId : ToastExpire(id)
    \/ HideTimer

SpecRoles == InitRoles /\ [][NextRoles]_vars

\* In this step the permission fetch p, made for a role that is not the one
\* selected now, gets an answer.
LateRoleAnswer(p) ==
    /\ ops[p].kind = "RolesPage.selectRole" /\ ops[p].pc = "await" /\ ops[p].live
    /\ pg.page = "/roles"
    /\ Field(ops[p].arg, "id") # Get(pg.selectedRole, "id")
    /\ ops'[p].recv > ops[p].recv

\* C32: when role A is selected and then role B before A's permission fetch
\* settles, a late answer for A does not replace the permissions displayed
\* for B (so that savePermissions cannot send A's permissions to B's routes).
C32_SelectedRolePermissions ==
    [][\A p \in OpIds : LateRoleAnswer(p) => pg'.rolePerms = pg.rolePerms]_vars

\* ------------------------------------------------------------ claims on the project list
\* No entry of the project list is null or undefined.
NoAbsentProject ==
    "projects" \in DOMAIN pg => \A i \in 1..Len(pg.projects) : NotNullish(pg.projects[i])

\* In this step the PUT of save p, issued by the page shown, is answered 2xx.
UpdateSucceeds(p) ==
    /\ ops[p].kind = "ProjectsPage.save" /\ Field(ops[p].arg, "mode") = JStr("edit")
    /\ ops[p].pc = "await" /\ ops[p].live
    /\ ops'[p].pc = "done" /\ ops'[p].out = "ok"

\* The update of project id kept the length of the list and every other entry.
OthersKept(id) ==
    /\ Len(pg'.projects) = Len(pg.projects)
    /\ \A i \in 1..Len(pg.projects) :
          Get(pg.projects[i], "id") # id => pg'.projects[i] = pg.projects[i]

UpdateKeepsOthers ==
    \A p \in OpIds : UpdateSucceeds(p) => OthersKept(Field(ops[p].arg, "id"))

\* C33: after any sequence of loads, creates, updates and archives the project
\* list holds no absent entry, and a successful update of a project keeps the
\* length of the list and leaves the other entries as they were, also when
\* the write is answered 2xx with an empty body.
C33_ProjectList == []NoAbsentProject /\ [][UpdateKeepsOthers]_vars

\* The two parts of C33, one by one.
C33_NoAbsentEntry == []NoAbsentProject
C33_OthersKept == [][UpdateKeepsOthers]_vars

\* ------------------------------------------------------------ claims on the project save action
\* A user with a stored credential on the projects page of a backend whose
\* one project has an id or has none: the profile is fetched, the list
\* loads, the user creates, edits, archives, deletes and saves. A request
\* fails for want of an answer.
SaveRaws ==
    UNION {Raws(k) : k \in {"ProjectsPage.load", "ProjectsPage.save",
                            "ProjectsPage.archiveOrDelete"}}
        \ {Http(500, JNull)}

InitSave == Init /\ storedToken # NoToken /\ route = "/projects"

NextSave ==
    \/ EffectRun
    \/ EffectMeResponse(Http(200, Profile))
    \/ \E p \in OpIds, raw \in SaveRaws : PageResponse(p, raw)
    \/ StartCreate
    \/ \E i \in 1..MaxList : StartEdit(i)
    \/ \E n \in ProjectNames : NameInput(n)
    \/ Save
    \/ \E i \in 1..MaxList : ArchiveOrDelete(i)
    \/ \E id \in 1..toastId : ToastExpire(id)
    \/ HideTimer

SpecSave == InitSave /\ [][NextSave]_vars

\* Save can be pressed: the form is shown, in create or in edit mode.
CanSave == pg.page = "/projects" /\ pg.mode \in {"create", "edit"} /\ HasFreeOp

\* Save pressed in this state on a form that passes validation issues its write.
SaveWrites ==
    CanSave /\ validateProject(pg.form) = NoErrors => Issued(save(St), "ProjectsPage.save")

\* The invocation p of save ends in this step, its page still shown.
SaveEnds(p) ==
    /\ ops[p].kind = "ProjectsPage.save"
    /\ ops[p].pc = "await" /\ ops[p].live
    /\ ops'[p].pc = "done"

\* ... having issued one request, with one notification.
SaveNotifies ==
    \A p \in OpIds :
        SaveEnds(p) => /\ Len(ops'[p].sent) = 1
                       /\ OneToast("success") \/ OneToast("error")

\* C34: every save whose form passes validation issues exactly one write
\* request and ends with exactly one notification, success or error, in
\* create mode and in edit mode, whatever the selected project is.
C34_SaveWritesAndNotifies == []SaveWrites /\ [][SaveNotifies]_vars

\* The two parts of C34, one by one.
C34_Writes == []SaveWrites
C34_Notifies == [][SaveNotifies]_vars

ProtectedViews == {"/projects", "/users", "/roles"}

\* A protected view is rendered only with the session initialized and a credential.
GateClosed == pg.page \in ProtectedViews => ~initializing /\ token # NoToken

\* At a protected location without credential, once initialized, is nobody:
\* the route has redirected to /login.
AnonymousRedirected == ~initializing /\ token = NoToken => route \in PublicRoutes

\* A step that leaves the session initializing at a protected location made no redirect.
NoRedirectInitializing == route \in ProtectedRoutes /\ initializing' => route' = route

\* A step that takes the credential away leaves no protected view rendered.
NothingAfterLogout ==
    token # NoToken /\ token' = NoToken => pg'.page \notin ProtectedViews

\* C36: protected content (the dashboard and the Projects, Users and Roles
\* views) is rendered only when the session is not initializing and holds a
\* credential; while initializing neither the content nor a redirect is
\* produced; not initializing and without credential the route redirects to
\* /login; after logout no protected view is rendered.
C36_ProtectedContent ==
    /\ [](GateClosed /\ AnonymousRedirected)
    /\ [][NoRedirectInitializing /\ NothingAfterLogout]_vars

\* The location is /projects and the session, with a credential, is still
\* fetching the profile: nothing of the page is rendered and no redirect was made.
C36_Witness ==
    /\ route = "/projects" /\ initializing /\ token # NoToken
    /\ eff.pc = "getme" /\ pg.page = "none"

====
